---- MODULE Spec2Model ----
(***************************************************************************)
(* A model of the Wordle results tracker of ChaseHub/DiscordBot:           *)
(*   - storeWordleResult (storeResults.ts): read the batches of a date,    *)
(*     compare the sorted, joined identity lists, append when none matches;*)
(*   - the two workflows that call it, trackWordleResults and the          *)
(*     /initsetup command;                                                 *)
(*   - aggregateWordleStats (aggregateStats.ts), a function of the stored  *)
(*     batches and of the current date.                                    *)
(*   - parseWordleSummary (parseWordleSummary.ts), a function of the text  *)
(*     of a message and of the roster;                                     *)
(*   - the page loops of fetchMessages and fetchGuildMembers;              *)
(*   - the slash commands that handleInteraction dispatches, and the       *)
(*     leaderboards of the report (resultsInfographic.ts).                 *)
(*                                                                         *)
(* Strings that the code sorts, joins or compares are sequences of UTF-16  *)
(* code units.  A date string YYYY-MM-DD is the triple <<y, m, d>>: the    *)
(* zero-padded text orders as the triple does.  Instants are whole hours   *)
(* since the epoch.                                                        *)
(***************************************************************************)
EXTENDS Integers, Sequences, FiniteSets

VARIABLES
    wordleResults,  \* the Firestore collection: the sequence of stored batches
    origin,         \* ghost: for each stored batch, the message it came from (0: none)
    spc,            \* per invocation of storeWordleResult: idle, get, add, ret
    firestoreData,  \* per invocation: the batch to store
    isDuplicate,    \* per invocation: the flag computed from the snapshot
    outcome,        \* ghost, per invocation: none, skipped, added, error
    fresh,          \* ghost, per invocation: at the read no stored batch of the
                    \* date had the same set of identities
    ncalls,         \* number of invocations started
    overlapped,     \* ghost: two invocations were in progress at the same time
    apc,            \* aggregateWordleStats: ready, done
    now,            \* the instant of the aggregation, in hours
    userIdToName,   \* the map from identity to name passed to the aggregation
    agg,            \* what aggregateWordleStats returned
    fpc,            \* the workflow in progress: idle, loop, store, aggregate, post
    kind,           \* which workflow: track, setup
    allMessages,    \* the messages the run fetched
    guildMembers,   \* the roster the run fetched
    idx,            \* the message the loop is at
    storedCount,    \* /initsetup: the count it reports as stored
    checkedCount,   \* /initsetup: the count of summaries it found
    reply,          \* /initsetup: what it sent back
    posted,         \* number of reports posted
    report,         \* the report built last
    nruns,          \* number of workflow runs started
    parsed,         \* what parseWordleSummary returned to its caller
    runLog,         \* ghost, of the run in progress: the messages whose store was
                    \* attempted, a store failed, the reports posted, a step threw,
                    \* the replies sent, the batches appended
    qpc,            \* a fetch call: idle, request, wait, returned
    fetcher,        \* which one: messages, members
    remote,         \* what the remote holds for the call
    fetchSince,     \* fetchMessages: its since
    cursor,         \* how many items of the remote the pages read cover
    fetched,        \* allMessages or allMembers of the call
    backoff,        \* the backoff of the call, in ms
    retryAfter,     \* the wait after the last 429, in ms
    lastResponse,   \* ghost: the last answer: throttled, status, network, page
    fetchRaised,    \* ghost: the call raised an error to its caller
    pagesRead,      \* ghost: the pages the call has read
    throttles,      \* ghost: the 429 answers in a row, up to SeenThrottles
    retryGiven      \* ghost: retry_after of the last 429 body, 0 for none

storeVars == <<wordleResults, origin, spc, firestoreData, isDuplicate, outcome,
               fresh, ncalls, overlapped>>

aggVars == <<apc, now, userIdToName, agg>>

loopVars == <<fpc, kind, allMessages, guildMembers, idx, storedCount,
              checkedCount, reply, posted, report, nruns, parsed, runLog>>

fetchVars == <<qpc, fetcher, remote, fetchSince, cursor, fetched, backoff,
               retryAfter, lastResponse, fetchRaised, pagesRead, throttles,
               retryGiven>>

flowVars == <<loopVars, fetchVars>>

vars == <<storeVars, aggVars, flowVars>>

----------------------------------------------------------------------------
(* Bounds of the model *)

MaxBatch == 2
MaxCalls == 2
MaxDocs == 2
MaxResults == 3
MaxGames == 4
MaxRuns == 2

----------------------------------------------------------------------------
(* Strings *)

\* null, as an identity: no string has a negative code unit
Null == <<-1>>

\* "null": what String(null) is
StrNull == <<110, 117, 108, 108>>

\* ","
Comma == <<44>>

\* the user ids "1" and "2"
Id1 == <<49>>
Id2 == <<50>>

UserIds == {Id1, Id2}

Identities == UserIds \cup {Null}

\* a < b for two strings: by code units, a proper prefix first
RECURSIVE StrLess(_, _)
StrLess(a, b) ==
    IF b = <<>> THEN FALSE
    ELSE IF a = <<>> THEN TRUE
    ELSE IF Head(a) # Head(b) THEN Head(a) < Head(b)
    ELSE StrLess(Tail(a), Tail(b))

\* String(x) for an element that Array.prototype.sort compares
JsString(x) == IF x = Null THEN StrNull ELSE x

\* x placed into the sorted sequence s, after the elements that do not
\* come after it (sort is stable)
RECURSIVE SortInsert(_, _)
SortInsert(s, x) ==
    IF s = <<>> THEN <<x>>
    ELSE IF StrLess(JsString(x), JsString(Head(s))) THEN <<x>> \o s
    ELSE <<Head(s)>> \o SortInsert(Tail(s), x)

\* Array.prototype.sort() with no comparator: by the elements' strings
RECURSIVE JsSort(_)
JsSort(s) ==
    IF s = <<>> THEN <<>>
    ELSE SortInsert(JsSort(SubSeq(s, 1, Len(s) - 1)), s[Len(s)])

\* Array.prototype.join(','): null joins as the empty string
RECURSIVE JsJoin(_)
JsJoin(s) ==
    IF s = <<>> THEN <<>>
    ELSE LET e == IF s[Len(s)] = Null THEN <<>> ELSE s[Len(s)]
         IN  IF Len(s) = 1 THEN e
             ELSE JsJoin(SubSeq(s, 1, Len(s) - 1)) \o Comma \o e

----------------------------------------------------------------------------
(* Dates *)

\* the civil date of a day number (days since 1970-01-01), as Date does in UTC
CivilFromDays(n) ==
    LET z   == n + 719468
        era == z \div 146097
        doe == z - era * 146097
        yoe == (doe - doe \div 1460 + doe \div 36524 - doe \div 146096) \div 365
        doy == doe - (365 * yoe + yoe \div 4 - yoe \div 100)
        mp  == (5 * doy + 2) \div 153
        d   == doy - (153 * mp + 2) \div 5 + 1
        m   == IF mp < 10 THEN mp + 3 ELSE mp - 9
        y   == yoe + era * 400 + (IF m <= 2 THEN 1 ELSE 0)
    IN  <<y, m, d>>

\* the day number of a civil date: what new Date("YYYY-MM-DD").getTime()
\* is, in days
DaysFromCivil(c) ==
    LET y   == c[1] - (IF c[2] <= 2 THEN 1 ELSE 0)
        era == y \div 400
        yoe == y - era * 400
        mp  == IF c[2] > 2 THEN c[2] - 3 ELSE c[2] + 9
        doy == (153 * mp + 2) \div 5 + c[3] - 1
        doe == yoe * 365 + yoe \div 4 - yoe \div 100 + doy
    IN  era * 146097 + doe - 719468

\* date.toISOString().slice(0, 10) of an instant given in hours
IsoDate(h) == CivilFromDays(h \div 24)

\* a < b for two date strings
DateLess(a, b) ==
    \/ a[1] < b[1]
    \/ a[1] = b[1] /\ a[2] < b[2]
    \/ a[1] = b[1] /\ a[2] = b[2] /\ a[3] < b[3]

----------------------------------------------------------------------------
(* storeWordleResult *)

Procs == {1, 2}

\* the scores a parsed result can carry: -1 for a fail, 1..6 for a solve
Fail == -1

\* the instants the callers pass: two in one UTC day, one in the next
CallInstants == {19723 * 24 + 7, 19723 * 24 + 19, 19724 * 24 + 7}

\* the parsed results a caller passes: a summary is never stored empty,
\* parseWordleSummary returns null for it
ParsedResults ==
    UNION {[1..n -> [id : Identities, score : {3}]] : n \in 1..MaxBatch}

\* results.map(r => r.id)
MapIds(results) == [i \in 1..Len(results) |-> results[i].id]

\* results.map(r => r.id).sort().join(',')
IdsKeyDropNulls(results) ==
    JsJoin(JsSort(SelectSeq(MapIds(results), LAMBDA x : x # Null)))
IdsKey(results) == JsJoin(JsSort(MapIds(results)))

\* collection("wordleResults").where("date", "==", dateString).get()
QueryByDate(coll, dateString) ==
    SelectSeq(coll, LAMBDA doc : doc.date = dateString)

\* the forEach over the snapshot: some stored batch has the key of the new one
SnapshotHasDuplicate(snapshot, data) ==
    \E i \in 1..Len(snapshot) :
        IdsKey(snapshot[i].results) = IdsKey(data.results)

\* the set of identities of a batch
IdSet(results) == {results[i].id : i \in 1..Len(results)}

\* how often identity x occurs in a batch
IdCount(results, x) == Cardinality({i \in 1..Len(results) : results[i].id = x})

Busy(p) == spc[p] \in {"get", "add"}

\* parsed.results.map(r => ({ id: r.id, score: r.score })): lines 17-20
StoreFields(results) ==
    [i \in 1..Len(results) |-> [id |-> results[i].id, score |-> results[i].score]]

\* storeWordleResult(date, parsed) is entered: lines 12-21
StoreEnter(p, instant, results, msg) ==
    /\ spc[p] = "idle"
    /\ firestoreData' = [firestoreData EXCEPT ![p] =
            [date |-> IsoDate(instant), results |-> StoreFields(results),
             msg |-> msg]]
    /\ spc' = [spc EXCEPT ![p] = "get"]
    /\ outcome' = [outcome EXCEPT ![p] = "none"]
    /\ isDuplicate' = [isDuplicate EXCEPT ![p] = FALSE]
    /\ fresh' = [fresh EXCEPT ![p] = FALSE]
    /\ ncalls' = ncalls + 1
    /\ overlapped' = (overlapped \/ \E q \in Procs \ {p} : Busy(q))
    /\ UNCHANGED <<wordleResults, origin>>

\* the query resolves and the snapshot is compared: lines 24-39
StoreGet(p) ==
    /\ spc[p] = "get"
    /\ LET data     == firestoreData[p]
           snapshot == QueryByDate(wordleResults, data.date)
           dup      == SnapshotHasDuplicate(snapshot, data)
       IN  /\ isDuplicate' = [isDuplicate EXCEPT ![p] = dup]
           /\ fresh' = [fresh EXCEPT ![p] =
                  \A i \in 1..Len(wordleResults) :
                      wordleResults[i].date = data.date
                          => IdSet(wordleResults[i].results) # IdSet(data.results)]
           /\ spc' = [spc EXCEPT ![p] = IF dup THEN "ret" ELSE "add"]
           /\ outcome' = [outcome EXCEPT ![p] = IF dup THEN "skipped" ELSE "none"]
    /\ UNCHANGED <<wordleResults, origin, firestoreData, ncalls, overlapped>>

\* what add() leaves in the collection: line 40
AddConditional(coll, data) ==
    IF SnapshotHasDuplicate(QueryByDate(coll, data.date), data)
    THEN coll
    ELSE Append(coll, [date |-> data.date, results |-> data.results])
AddDoc(coll, data) ==
    Append(coll, [date |-> data.date, results |-> data.results])

\* the add resolves: line 40
StoreAdd(p) ==
    /\ spc[p] = "add"
    /\ wordleResults' = AddDoc(wordleResults, firestoreData[p])
    /\ origin' = IF wordleResults' = wordleResults THEN origin
                 ELSE Append(origin, firestoreData[p].msg)
    /\ outcome' = [outcome EXCEPT ![p] =
           IF wordleResults' = wordleResults THEN "skipped" ELSE "added"]
    /\ spc' = [spc EXCEPT ![p] = "ret"]
    /\ UNCHANGED <<firestoreData, isDuplicate, fresh, ncalls, overlapped>>

\* the query or the add rejects; the catch logs it: lines 41-43
StoreError(p) ==
    /\ spc[p] \in {"get", "add"}
    /\ outcome' = [outcome EXCEPT ![p] = "error"]
    /\ spc' = [spc EXCEPT ![p] = "ret"]
    /\ UNCHANGED <<wordleResults, origin, firestoreData, isDuplicate, fresh,
                   ncalls, overlapped>>

\* the caller's await resumes
StoreReturn(p) ==
    /\ spc[p] = "ret"
    /\ spc' = [spc EXCEPT ![p] = "idle"]
    /\ UNCHANGED <<wordleResults, origin, firestoreData, isDuplicate, outcome,
                   fresh, ncalls, overlapped>>

\* "alice"
StrAlice == <<97, 108, 105, 99, 101>>

NoStats == [threw |-> FALSE]

AggIdle ==
    /\ apc = "ready"
    /\ now = 0
    /\ userIdToName = <<>>
    /\ agg = NoStats

\* ghost: nothing has happened in the run
NoRunLog ==
    [attempts |-> {}, storeFailed |-> FALSE, posts |-> 0, threw |-> FALSE,
     raised |-> FALSE, replies |-> 0, appended |-> 0]

\* no summary parsed yet
NoParse == [null |-> TRUE, raised |-> FALSE]

NoReply == [content |-> "none", stored |-> 0, checked |-> 0]

\* no report built yet
NoReport == [built |-> FALSE]

\* no fetch call yet
FetchIdle ==
    /\ qpc = "idle"
    /\ fetcher = "none"
    /\ remote = <<>>
    /\ fetchSince = 0
    /\ cursor = 0
    /\ fetched = <<>>
    /\ backoff = 1000
    /\ retryAfter = 0
    /\ lastResponse = "none"
    /\ fetchRaised = FALSE
    /\ pagesRead = 0
    /\ throttles = 0
    /\ retryGiven = 0

FlowIdle ==
    /\ FetchIdle
    /\ fpc = "idle"
    /\ kind = "none"
    /\ allMessages = <<>>
    /\ guildMembers = <<>>
    /\ idx = 0
    /\ storedCount = 0
    /\ checkedCount = 0
    /\ reply = NoReply
    /\ posted = 0
    /\ report = NoReport
    /\ nruns = 0
    /\ parsed = NoParse
    /\ runLog = NoRunLog

NoData == [date |-> <<0, 0, 0>>, results |-> <<>>, msg |-> 0]

StoreInit ==
    /\ wordleResults = <<>>
    /\ origin = <<>>
    /\ spc = [p \in Procs |-> "idle"]
    /\ firestoreData = [p \in Procs |-> NoData]
    /\ isDuplicate = [p \in Procs |-> FALSE]
    /\ outcome = [p \in Procs |-> "none"]
    /\ fresh = [p \in Procs |-> FALSE]
    /\ ncalls = 0
    /\ overlapped = FALSE

\* callers that invoke storeWordleResult with any date and any batch, two
\* of them possibly at the same time
CallStore ==
    \E p \in Procs, instant \in CallInstants, results \in ParsedResults :
        /\ ncalls < MaxCalls
        /\ StoreEnter(p, instant, results, 0)
        /\ UNCHANGED <<aggVars, flowVars>>

GetStore == (\E p \in Procs : StoreGet(p)) /\ UNCHANGED <<aggVars, flowVars>>

AddStore == (\E p \in Procs : StoreAdd(p)) /\ UNCHANGED <<aggVars, flowVars>>

ErrorStore == (\E p \in Procs : StoreError(p)) /\ UNCHANGED <<aggVars, flowVars>>

ReturnStore == (\E p \in Procs : StoreReturn(p)) /\ UNCHANGED <<aggVars, flowVars>>

NextStore == CallStore \/ GetStore \/ AddStore \/ ErrorStore \/ ReturnStore

InitStore == StoreInit /\ AggIdle /\ FlowIdle

SpecStore == InitStore /\ [][NextStore]_vars

----------------------------------------------------------------------------
(* JavaScript numbers that are quotients of counts, NaN or null *)

RECURSIVE Gcd(_, _)
Gcd(a, b) == IF b = 0 THEN a ELSE Gcd(b, a % b)

\* n / d for integers n >= 0 and d > 0, in lowest terms
Quot(n, d) ==
    LET g == Gcd(n, d) IN [k |-> "num", n |-> n \div g, d |-> d \div g]

JsNull == [k |-> "null", n |-> 0, d |-> 1]

JsNaN == [k |-> "nan", n |-> 0, d |-> 1]

\* the sign of a - b as a sort comparator sees it: NaN is not below 0
NumBelow(a, b) ==
    a.k = "num" /\ b.k = "num" /\ a.n * b.d < b.n * a.d

----------------------------------------------------------------------------
(* aggregateWordleStats *)

Has(r, f) == f \in DOMAIN r

\* the text is a date that new Date() reads
IsDateString(c) == c[2] \in 1..12 /\ c[3] \in 1..31

\* line 62 throws: no date field, or toISOString() of an invalid Date;
\* line 67 throws: the results are not iterable
DocThrows(doc) ==
    \/ ~Has(doc, "date")
    \/ ~IsDateString(doc.date)
    \/ ~Has(doc, "results")

\* new Date(data.date).toISOString().slice(0, 10): line 62
DocDate(doc) == CivilFromDays(DaysFromCivil(doc.date))

\* result.id == null: line 69
IdIsNull(r) == ~Has(r, "id") \/ r.id = Null

\* the entries one document pushes, in the order of its results: lines 67-75
DocGames(doc) ==
    [i \in 1..Len(doc.results) |->
        LET r == doc.results[i]
        IN  IF Has(r, "score")
            THEN [id |-> IF IdIsNull(r) THEN Null ELSE r.id,
                  date |-> DocDate(doc), score |-> r.score]
            ELSE [id |-> IF IdIsNull(r) THEN Null ELSE r.id,
                  date |-> DocDate(doc)]]

\* the entries of all documents, in the order of the snapshot
RECURSIVE AllGames(_)
AllGames(snapshot) ==
    IF snapshot = <<>> THEN <<>>
    ELSE DocGames(Head(snapshot)) \o AllGames(Tail(snapshot))

\* userGameHistory[userId], from the entries of all documents: lines 73-74
UserGameHistory(allGames, userId) ==
    SelectSeq(allGames, LAMBDA g : g.id = userId)

\* the keys of userGameHistory
HistoryUsers(allGames) ==
    {allGames[i].id : i \in 1..Len(allGames)} \ {Null}

\* g placed into the date-sorted sequence s behind the games of its date
RECURSIVE InsertByDate(_, _)
InsertByDate(s, g) ==
    IF s = <<>> THEN <<g>>
    ELSE IF DateLess(g.date, Head(s).date) THEN <<g>> \o s
    ELSE <<Head(s)>> \o InsertByDate(Tail(s), g)

\* sort((a, b) => a.date.localeCompare(b.date)): line 81
RECURSIVE SortByDate(_)
SortByDate(s) ==
    IF s = <<>> THEN <<>>
    ELSE InsertByDate(SortByDate(SubSeq(s, 1, Len(s) - 1)), s[Len(s)])

\* g.score !== -1: lines 82, 103, 108, 119
Solved(g) == ~Has(g, "score") \/ g.score # Fail

\* (new Date(a).getTime() - new Date(b).getTime()) / 86400000: lines 107, 121
DayDiff(a, b) == DaysFromCivil(a) - DaysFromCivil(b)

\* the mutant of the walk: every solved game before the last one counts,
\* whatever the gap
RECURSIVE WalkBackAnyGap(_, _)
WalkBackAnyGap(games, i) ==
    IF i >= 1 /\ Solved(games[i]) THEN 1 + WalkBackAnyGap(games, i - 1) ELSE 0

\* the backward walk from games[i]: lines 106-113
RECURSIVE WalkBack(_, _)
WalkBack(games, i) ==
    IF i >= 1 /\ Solved(games[i]) /\ DayDiff(games[i + 1].date, games[i].date) = 1
    THEN 1 + WalkBack(games, i - 1)
    ELSE 0

\* lines 102-114
AnchorTodayOnly(lastGame, today, yesterday) ==
    Solved(lastGame) /\ lastGame.date = today
Anchor(lastGame, today, yesterday) ==
    Solved(lastGame) /\ (lastGame.date = today \/ lastGame.date = yesterday)

CurrentStreak(games, today, yesterday) ==
    IF games # <<>> /\ Anchor(games[Len(games)], today, yesterday)
    THEN 1 + WalkBack(games, Len(games) - 1)
    ELSE 0

\* runningStreak after games[i]: lines 119-128
RunningRestarts(games, i, before) ==
    IF Solved(games[i]) THEN 1 ELSE 0
RunningStep(games, i, before) ==
    IF Solved(games[i])
    THEN IF i > 1
         THEN IF DayDiff(games[i].date, games[i - 1].date) = 1
              THEN before + 1 ELSE 1
         ELSE 1
    ELSE 0

RECURSIVE RunningStreak(_, _)
RunningStreak(games, i) ==
    IF i = 0 THEN 0 ELSE RunningStep(games, i, RunningStreak(games, i - 1))

\* lines 116-132
MaxStreak(games) ==
    LET runs == {RunningStreak(games, i) : i \in 0..Len(games)}
    IN  CHOOSE m \in runs : \A r \in runs : r <= m

\* the sum of the scores, NaN when one is missing: lines 84-88, 154
RECURSIVE SumScores(_)
SumScores(rs) ==
    IF rs = <<>> THEN Quot(0, 1)
    ELSE LET rest == SumScores(Tail(rs))
         IN  IF rest.k = "nan" \/ ~Has(Head(rs), "score") THEN JsNaN
             ELSE Quot(rest.n + Head(rs).score, 1)

\* total / count
Mean(total, count) ==
    IF total.k = "nan" THEN JsNaN ELSE Quot(total.n, count)

SolveBuckets == 1..6

\* distribution[g.score]++: how many of the games have the score
CountScore(games, score) ==
    Cardinality({i \in 1..Len(games) :
                    Has(games[i], "score") /\ games[i].score = score})

\* "User..."
StrUser == <<85, 115, 101, 114, 46, 46, 46>>

\* userId.slice(-4)
SliceLast4(str) ==
    IF Len(str) <= 4 THEN str ELSE SubSeq(str, Len(str) - 3, Len(str))

\* userIdToName[userId] || `User...${userId.slice(-4)}`: line 138
UserName(idToName, userId) ==
    IF userId \in DOMAIN idToName /\ idToName[userId] # <<>>
    THEN idToName[userId]
    ELSE StrUser \o SliceLast4(userId)

\* userStats[userId]: lines 80-147
AverageScore(games, solvedGames) ==
    IF Len(solvedGames) > 0
    THEN Mean(SumScores(solvedGames), Len(solvedGames)) ELSE JsNull

UserStatsOf(allGames, idToName, userId, today, yesterday) ==
    LET games       == SortByDate(UserGameHistory(allGames, userId))
        solvedGames == SelectSeq(games, Solved)
    IN  [id            |-> userId,
         username      |-> UserName(idToName, userId),
         gamesPlayed   |-> Len(games),
         gamesSolved   |-> Len(solvedGames),
         winRate       |-> IF Len(games) > 0
                           THEN Quot(Len(solvedGames), Len(games))
                           ELSE Quot(0, 1),
         averageScore  |-> AverageScore(games, solvedGames),
         distribution  |->
             [counts |-> [b \in SolveBuckets \cup {Fail} |->
                            IF b = Fail THEN Len(games) - Len(solvedGames)
                            ELSE CountScore(solvedGames, b)],
              undefinedKey |-> \E i \in 1..Len(solvedGames) :
                                   ~Has(solvedGames[i], "score")],
         currentStreak |-> CurrentStreak(games, today, yesterday),
         maxStreak     |-> MaxStreak(games),
         guessCounts   |->
             [counts |-> [b \in SolveBuckets |->
                            CountScore(solvedGames, b)],
              undefinedKey |-> \E i \in 1..Len(solvedGames) :
                                   ~Has(solvedGames[i], "score")]]

\* allResultsByDate[date]: the document of the date that the forEach met
\* last: line 65
LatestDoc(snapshot, date) ==
    LET last == CHOOSE i \in 1..Len(snapshot) :
                    /\ DocDate(snapshot[i]) = date
                    /\ \A j \in 1..Len(snapshot) :
                           DocDate(snapshot[j]) = date => j <= i
    IN  snapshot[last]

\* Object.keys(allResultsByDate).sort().pop(): line 151
OldestDate(snapshot) ==
    LET dates == {DocDate(snapshot[i]) : i \in 1..Len(snapshot)}
    IN  CHOOSE d \in dates : \A e \in dates : ~DateLess(e, d)
MostRecentDate(snapshot) ==
    LET dates == {DocDate(snapshot[i]) : i \in 1..Len(snapshot)}
    IN  CHOOSE d \in dates : \A e \in dates : ~DateLess(d, e)

\* the key of a result in the daily distribution: line 156
DailyKey(r) == IF ~Has(r, "score") \/ r.score = Fail THEN Fail ELSE r.score

\* acc[key] = (acc[key] || 0) + 1: line 157
CountKey(results, key) ==
    Cardinality({i \in 1..Len(results) : DailyKey(results[i]) = key})

\* lines 151-170
DailySummaryOf(snapshot) ==
    LET mostRecentDate == MostRecentDate(snapshot)
        latestDayData  == LatestDoc(snapshot, mostRecentDate)
        results        == latestDayData.results
        winners        == SelectSeq(results, Solved)
        totalScore     == SumScores(winners)
        keys           == {DailyKey(results[i]) : i \in 1..Len(results)}
    IN  [null         |-> FALSE,
         date         |-> mostRecentDate,
         wordleNumber |-> IF Has(latestDayData, "wordleNumber")
                          THEN <<latestDayData.wordleNumber>> ELSE <<>>,
         totalPlayers |-> Len(results),
         successRate  |-> IF Len(results) > 0
                          THEN Quot(Len(winners) * 100, Len(results))
                          ELSE Quot(0, 1),
         averageScore |-> IF Len(winners) > 0
                          THEN Mean(totalScore, Len(winners)) ELSE JsNull,
         winners      |-> winners,
         results      |-> results,
         distribution |-> [key \in keys |->
                              CountKey(results, key)]]

\* "4294967294", the greatest array index
StrMaxIndex == <<52, 50, 57, 52, 57, 54, 55, 50, 57, 52>>

\* the key is an array index: such keys of an object come first, in
\* ascending numeric order
IsArrayIndex(str) ==
    /\ str # <<>>
    /\ \A i \in 1..Len(str) : str[i] \in 48..57
    /\ Len(str) = 1 \/ str[1] # 48
    /\ Len(str) < 10 \/ (Len(str) = 10 /\ ~StrLess(StrMaxIndex, str))

IndexLess(a, b) == Len(a) < Len(b) \/ (Len(a) = Len(b) /\ StrLess(a, b))

RECURSIVE FirstSeen(_)
FirstSeen(s) ==
    IF s = <<>> THEN <<>>
    ELSE LET init == FirstSeen(SubSeq(s, 1, Len(s) - 1))
             x    == s[Len(s)]
         IN  IF \E i \in 1..Len(init) : init[i] = x THEN init
             ELSE Append(init, x)

RECURSIVE InsertIndex(_, _)
InsertIndex(s, x) ==
    IF s = <<>> THEN <<x>>
    ELSE IF IndexLess(x, Head(s)) THEN <<x>> \o s
    ELSE <<Head(s)>> \o InsertIndex(Tail(s), x)

RECURSIVE SortIndex(_)
SortIndex(s) ==
    IF s = <<>> THEN <<>>
    ELSE InsertIndex(SortIndex(SubSeq(s, 1, Len(s) - 1)), s[Len(s)])

\* the order in which for (const userId in userGameHistory) and
\* Object.values(userStats) go through the keys: lines 80, 173
KeyOrder(allGames) ==
    LET ids   == SelectSeq([i \in 1..Len(allGames) |-> allGames[i].id],
                           LAMBDA x : x # Null)
        seen  == FirstSeen(ids)
    IN  SortIndex(SelectSeq(seen, IsArrayIndex))
            \o SelectSeq(seen, LAMBDA x : ~IsArrayIndex(x))

\* the comparator of a leaderboard puts a before b: lines 177-179
Before(board, a, b) ==
    CASE board = "longestStreak"    -> b.maxStreak < a.maxStreak
      [] board = "bestWinRate"      -> NumBelow(b.winRate, a.winRate)
      [] board = "bestAverageScore" -> NumBelow(a.averageScore, b.averageScore)

RECURSIVE InsertRankedFront(_, _, _)
InsertRankedFront(board, s, x) ==
    IF s = <<>> THEN <<x>>
    ELSE IF ~Before(board, Head(s), x) THEN <<x>> \o s
    ELSE <<Head(s)>> \o InsertRankedFront(board, Tail(s), x)

RECURSIVE InsertRanked(_, _, _)
InsertRanked(board, s, x) ==
    IF s = <<>> THEN <<x>>
    ELSE IF Before(board, x, Head(s)) THEN <<x>> \o s
    ELSE <<Head(s)>> \o InsertRanked(board, Tail(s), x)

\* [...list].sort(comparator): the sort is stable
RECURSIVE SortRanked(_, _)
SortRanked(board, s) ==
    IF s = <<>> THEN <<>>
    ELSE InsertRanked(board, SortRanked(board, SubSeq(s, 1, Len(s) - 1)),
                      s[Len(s)])

TopN == 5

\* slice(0, 5)
Top(s) == IF Len(s) <= TopN THEN s ELSE SubSeq(s, 1, TopN)

\* lines 172-180
LeaderboardsOf(userStats, order) ==
    LET statsList        == [i \in 1..Len(order) |-> userStats[order[i]]]
        qualifiedPlayers == SelectSeq(statsList, LAMBDA st : st.gamesPlayed # 0)
    IN  [longestStreak    |-> Top(SortRanked("longestStreak", statsList)),
         bestWinRate      |-> Top(SortRanked("bestWinRate", qualifiedPlayers)),
         bestAverageScore |->
             Top(SortRanked("bestAverageScore",
                            SelectSeq(qualifiedPlayers,
                                      LAMBDA st : st.averageScore # JsNull)))]

\* d placed into the sequence s of documents sorted by date, newest
\* first, behind the documents of its date
RECURSIVE InsertDesc(_, _)
InsertDesc(s, doc) ==
    IF s = <<>> THEN <<doc>>
    ELSE IF DateLess(Head(s).date, doc.date) THEN <<doc>> \o s
    ELSE <<Head(s)>> \o InsertDesc(Tail(s), doc)

\* collection("wordleResults").orderBy("date", "desc").get(): documents
\* with no date field are not in the result of an orderBy; the documents
\* of one date come in the order of the collection
RECURSIVE OrderByDateDesc(_)
OrderByDateDesc(coll) ==
    IF coll = <<>> THEN <<>>
    ELSE LET init == OrderByDateDesc(SubSeq(coll, 1, Len(coll) - 1))
             doc  == coll[Len(coll)]
         IN  IF Has(doc, "date") THEN InsertDesc(init, doc) ELSE init

EmptyStats ==
    [threw |-> FALSE,
     dailySummary |-> [null |-> TRUE],
     userStats |-> <<>>,
     allTimeLeaderboards |->
         [longestStreak |-> <<>>, bestWinRate |-> <<>>, bestAverageScore |-> <<>>]]

Thrown == [threw |-> TRUE]

\* the body of aggregateWordleStats after the empty check: lines 56-182
StatsOf(snapshot, idToName, at) ==
    IF \E i \in 1..Len(snapshot) : DocThrows(snapshot[i]) THEN Thrown
    ELSE LET today     == IsoDate(at)
             yesterday == IsoDate(at - 24)
             allGames  == AllGames(snapshot)
             userStats == [userId \in HistoryUsers(allGames) |->
                              UserStatsOf(allGames, idToName, userId,
                                          today, yesterday)]
         IN  [threw |-> FALSE,
              dailySummary |-> DailySummaryOf(snapshot),
              userStats |-> userStats,
              allTimeLeaderboards |->
                  LeaderboardsOf(userStats, KeyOrder(allGames))]

\* aggregateWordleStats(userIdToName): lines 48-182
AggregateNoEmptyCheck(coll, idToName, at) ==
    LET snapshot == OrderByDateDesc(coll)
    IN  IF snapshot = <<>> THEN Thrown
        ELSE StatsOf(snapshot, idToName, at)
AggregateWordleStats(coll, idToName, at) ==
    LET snapshot == OrderByDateDesc(coll)
    IN  IF snapshot = <<>> THEN EmptyStats
        ELSE StatsOf(snapshot, idToName, at)

----------------------------------------------------------------------------
(* The aggregation of a stored history *)

\* the sequences of at most maxDocs batches that hold at most maxResults
\* results in all, every batch with a result, a date of days and results
\* of entries
RECURSIVE StoresOf(_, _, _, _)
StoresOf(maxDocs, maxResults, entries, days) ==
    IF maxDocs = 0 \/ maxResults = 0 THEN {<<>>}
    ELSE {<<>>} \cup UNION {
             LET rests == StoresOf(maxDocs - 1, maxResults - n, entries, days)
                 docs  == {[date |-> CivilFromDays(day), results |-> results] :
                               day \in days, results \in [1..n -> entries]}
             IN  {<<doc>> \o rest : doc \in docs, rest \in rests} :
             n \in 1..maxResults}

\* histories of two users and of results without identity, on 2024-01-01
\* and 2024-01-02
WideStores(maxDocs, maxResults) ==
    StoresOf(maxDocs, maxResults, [id : Identities, score : {Fail, 2, 3}],
             19723..19724)

\* histories of one user from 2023-12-31 to 2024-01-03
DeepStores(maxGames) ==
    StoresOf(maxGames, maxGames, [id : {Id1}, score : {Fail, 3}], 19722..19725)

\* histories from 2024-01-01 to 2024-01-03 in which a date can have a
\* batch of user 1 and a batch of users 1 and 2
RepeatDocs ==
    {[date |-> CivilFromDays(day), results |-> results] :
         day \in 19723..19725,
         results \in {<<[id |-> Id1, score |-> 3]>>,
                      <<[id |-> Id1, score |-> 3], [id |-> Id2, score |-> 3]>>}}

RepeatStores(maxGames) == UNION {[1..n -> RepeatDocs] : n \in 0..maxGames}

\* the aggregation runs on 2024-01-03 or on 2024-01-04, at 06:00
AggInstants == {19725 * 24 + 6, 19726 * 24 + 6}

AggInit(stores) ==
    /\ wordleResults \in stores
    /\ origin = <<>>
    /\ spc = [p \in Procs |-> "idle"]
    /\ firestoreData = [p \in Procs |-> NoData]
    /\ isDuplicate = [p \in Procs |-> FALSE]
    /\ outcome = [p \in Procs |-> "none"]
    /\ fresh = [p \in Procs |-> FALSE]
    /\ ncalls = 0
    /\ overlapped = FALSE
    /\ apc = "ready"
    /\ now \in AggInstants
    /\ userIdToName = [userId \in {Id1} |-> StrAlice]
    /\ agg = NoStats
    /\ FlowIdle

\* aggregateWordleStats is called and returns or throws
Aggregate ==
    /\ apc = "ready"
    /\ agg' = AggregateWordleStats(wordleResults, userIdToName, now)
    /\ apc' = "done"
    /\ UNCHANGED <<storeVars, now, userIdToName, flowVars>>

InitAgg ==
    AggInit(WideStores(MaxDocs, MaxResults) \cup DeepStores(MaxGames)
                \cup RepeatStores(MaxGames))

SpecAgg == InitAgg /\ [][Aggregate]_vars

\* the identities of a guild with more users than a leaderboard holds:
\* "1", "10000000002", "3", "10000000004", ...
BoardUserId(k) ==
    IF k % 2 = 1 THEN <<48 + k>>
    ELSE <<49, 48, 48, 48, 48, 48, 48, 48, 48, 48, 48 + k>>

MaxBoardUsers == 6

\* a batch of 2024-01-01 with a result of every user, in the order of the
\* users or in the reverse order, and then no batch or a batch of
\* 2024-01-02 with a result of the first two users
BoardStores(maxUsers) ==
    LET users  == 1..maxUsers
        first  == {[date |-> <<2024, 1, 1>>,
                    results |-> [k \in users |->
                        [id |-> BoardUserId(IF up THEN k ELSE maxUsers + 1 - k),
                         score |-> scores[IF up THEN k ELSE maxUsers + 1 - k]]]] :
                       scores \in [users -> {Fail, 2, 3}], up \in BOOLEAN}
        second == {[date |-> <<2024, 1, 2>>,
                    results |-> [k \in 1..2 |->
                        [id |-> BoardUserId(k), score |-> scores[k]]]] :
                       scores \in [1..2 -> {Fail, 3}]}
    IN  {<<a>> : a \in first} \cup {<<a, b>> : a \in first, b \in second}

InitBoard == AggInit(BoardStores(MaxBoardUsers))

SpecBoard == InitBoard /\ [][Aggregate]_vars

\* results as another writer can leave them: without score, without id
RawEntries ==
    {[id |-> Id1, score |-> 3], [id |-> Null, score |-> Fail],
     [id |-> Id1], [score |-> 3]}

MaxRawResults == 1

MaxRawDocs == 2

RawResults == UNION {[1..n -> RawEntries] : n \in 0..MaxRawResults}

\* "2024-13-01" is no date
RawDates == {<<2024, 1, 1>>, <<2024, 1, 2>>, <<2024, 13, 1>>}

\* documents with or without a date, with or without results
RawDocs ==
    {[date |-> date, results |-> results] : date \in RawDates, results \in RawResults}
        \cup {[date |-> date] : date \in RawDates}
        \cup {[results |-> results] : results \in RawResults}

RawStores(maxDocs) == UNION {[1..n -> RawDocs] : n \in 0..maxDocs}

InitAggRaw == AggInit(RawStores(MaxRawDocs))

SpecAggRaw == InitAggRaw /\ [][Aggregate]_vars

----------------------------------------------------------------------------
(* The leaderboards of the report: resultsInfographic.ts *)

\* the valueExtractor of a category: maxStreak, winRate, averageScore
ValueOf(board, st) ==
    CASE board = "longestStreak"    -> Quot(st.maxStreak, 1)
      [] board = "bestWinRate"      -> st.winRate
      [] board = "bestAverageScore" -> st.averageScore

\* valueExtractor(s) === topValue
StrictEquals(a, b) == a.k # "nan" /\ a = b

IdsOf(players) == [i \in 1..Len(players) |-> players[i].id]

\* the mutant of the tie: the medal goes to the player sorted first
FirstPlayerOnly(board, remainingStats, topValue) == <<remainingStats[1]>>

\* remainingStats.filter(s => valueExtractor(s) === topValue)
TiedPlayers(board, remainingStats, topValue) ==
    SelectSeq(remainingStats, LAMBDA s : StrictEquals(ValueOf(board, s), topValue))

\* the loop over the medals of formatLeaderboardCategory, with medalsLeft
\* medals to go: the rows of the text, a value and its users each
RECURSIVE MedalRows(_, _, _, _)
MedalRows(board, relevantStats, placedUsers, medalsLeft) ==
    LET unplaced == SelectSeq(relevantStats, LAMBDA s : s.id \notin placedUsers)
    IN  IF medalsLeft = 0 \/ unplaced = <<>> THEN <<>>
        ELSE LET remainingStats == SortRanked(board, unplaced)
                 topValue       == ValueOf(board, remainingStats[1])
                 tiedPlayers    == TiedPlayers(board, remainingStats, topValue)
                 placedNow      == placedUsers \cup
                                       {tiedPlayers[i].id : i \in 1..Len(tiedPlayers)}
             IN  IF tiedPlayers = <<>>
                 THEN MedalRows(board, relevantStats, placedUsers, medalsLeft - 1)
                 ELSE <<[value |-> topValue, users |-> IdsOf(tiedPlayers)]>>
                      \o (IF Cardinality(placedNow) >= Len(relevantStats) THEN <<>>
                          ELSE MedalRows(board, relevantStats, placedNow,
                                         medalsLeft - 1))

\* medals = ["1st", "2nd", "3rd"]
Medals == 3

\* formatLeaderboardCategory(stats, valueExtractor, valueFormatter,
\* sortDirection): no row stands for "*Not enough data yet.*"
FormatLeaderboardCategory(stats, board) ==
    MedalRows(board,
              SelectSeq(stats, LAMBDA s : ValueOf(board, s) # JsNull),
              {}, Medals)

\* buildLeaderboardEmbed(Object.values(userStats)): the three categories
LeaderboardEmbed(allUserStats) ==
    [longestStreak    |-> FormatLeaderboardCategory(allUserStats, "longestStreak"),
     bestWinRate      |-> FormatLeaderboardCategory(allUserStats, "bestWinRate"),
     bestAverageScore |-> FormatLeaderboardCategory(allUserStats, "bestAverageScore")]

\* buildResultsInfographic(stats, userIdToName): the report of a day
\* without results has no leaderboards; order is the order of the keys of
\* userStats
BuildResultsInfographic(stats, order) ==
    IF stats.dailySummary.null \/ stats.dailySummary.totalPlayers = 0
    THEN [built |-> TRUE, empty |-> TRUE]
    ELSE [built |-> TRUE, empty |-> FALSE,
          leaderboards |->
              LeaderboardEmbed([i \in 1..Len(order) |-> stats.userStats[order[i]]])]

\* the order of Object.values(userStats)
StatsOrder == KeyOrder(AllGames(OrderByDateDesc(wordleResults)))

MaxMedalUsers == 4

\* a batch of 2024-01-01 with a result of every user, and then no batch or
\* a batch of 2024-01-02 with a result of the first two users
MedalStores(maxUsers) ==
    LET users  == 1..maxUsers
        first  == {[date |-> <<2024, 1, 1>>,
                    results |-> [k \in users |->
                        [id |-> BoardUserId(k), score |-> scores[k]]]] :
                       scores \in [users -> {Fail, 1, 2, 3, 4}]}
        second == {[date |-> <<2024, 1, 2>>,
                    results |-> [k \in 1..2 |->
                        [id |-> BoardUserId(k), score |-> scores[k]]]] :
                       scores \in [1..2 -> {Fail, 3}]}
    IN  {<<a>> : a \in first} \cup {<<a, b>> : a \in first, b \in second}

\* the report is built from the stats that aggregation returned
BuildReport ==
    /\ apc = "done"
    /\ ~agg.threw
    /\ ~report.built
    /\ report' = BuildResultsInfographic(agg, StatsOrder)
    /\ UNCHANGED <<storeVars, aggVars, fpc, kind, allMessages, guildMembers,
                   idx, storedCount, checkedCount, reply, posted, nruns,
                   parsed, runLog, fetchVars>>

InitReport == AggInit(MedalStores(MaxMedalUsers))

NextReport == Aggregate \/ BuildReport

SpecReport == InitReport /\ [][NextReport]_vars

----------------------------------------------------------------------------
(* The workflows: trackWordleResults and the /initsetup command *)

\* "Alice"
StrAliceCap == <<65, 108, 105, 99, 101>>

\* "al"
StrAl == <<97, 108>>

\* toLowerCase(), on the letters A to Z
ToLowerCase(str) ==
    [i \in 1..Len(str) |-> IF str[i] \in 65..90 THEN str[i] + 32 ELSE str[i]]

\* guild members: user.id, user.username and nick, "" when there is none
MemberAlice == [id |-> Id1, username |-> StrAlice, nick |-> <<>>]

MemberAl == [id |-> Id2, username |-> StrAl, nick |-> StrAliceCap]

\* what fetchGuildMembers can return for the guild: nothing when the
\* first page fails, the members, or the members after one more joined
Rosters == {<<>>, <<MemberAlice>>, <<MemberAl, MemberAlice>>}

\* str has the literal lit at index i
HasAt(str, i, lit) ==
    /\ i >= 1
    /\ i + Len(lit) - 1 <= Len(str)
    /\ \A k \in 1..Len(lit) : str[i + k - 1] = lit[k]

\* String.prototype.includes
Includes(str, lit) == \E i \in 1..(Len(str) + 1) : HasAt(str, i, lit)

\* "day streak"
StrDayStreakWord == <<100, 97, 121, 32, 115, 116, 114, 101, 97, 107>>

\* "Wordle"
StrWordle == <<87, 111, 114, 100, 108, 101>>

\* isWordleSummary(content)
IsWordleSummary(content) ==
    Includes(content, StrDayStreakWord) /\ Includes(content, StrWordle)

\* str.split(sep) for a separator of one code unit
RECURSIVE SplitFrom(_, _, _, _)
SplitFrom(str, sep, start, i) ==
    IF i > Len(str) THEN <<SubSeq(str, start, Len(str))>>
    ELSE IF str[i] = sep
         THEN <<SubSeq(str, start, i - 1)>> \o SplitFrom(str, sep, i + 1, i + 1)
         ELSE SplitFrom(str, sep, start, i + 1)

\* content.split("\n")
SplitLines(content) == SplitFrom(content, 10, 1, 1)

\* \d and [0-9]
IsDigit(c) == c \in 48..57

\* the index after the digits that start at i: what a greedy \d+ takes
RECURSIVE DigitsEnd(_, _)
DigitsEnd(str, i) ==
    IF i <= Len(str) /\ IsDigit(str[i]) THEN DigitsEnd(str, i + 1) ELSE i

\* parseInt(digits, 10) of a run of digits
RECURSIVE ParseInt(_)
ParseInt(digits) ==
    IF digits = <<>> THEN 0
    ELSE ParseInt(SubSeq(digits, 1, Len(digits) - 1)) * 10
             + (digits[Len(digits)] - 48)

\* "on a "
StrOnA == <<111, 110, 32, 97, 32>>

\* " day streak"
StrDayStreak == <<32>> \o StrDayStreakWord

\* /on a (\d+) day streak/ matches from index i
StreakMatchAt(line, i) ==
    /\ HasAt(line, i, StrOnA)
    /\ DigitsEnd(line, i + Len(StrOnA)) > i + Len(StrOnA)
    /\ HasAt(line, DigitsEnd(line, i + Len(StrOnA)), StrDayStreak)

\* parseStreak(line): the day count of the leftmost match, or null
ParseStreak(line) ==
    LET starts == {i \in 1..Len(line) : StreakMatchAt(line, i)}
    IN  IF starts = {} THEN JsNull
        ELSE LET i == CHOOSE s \in starts : \A t \in starts : s <= t
                 from == i + Len(StrOnA)
             IN  Quot(ParseInt(SubSeq(line, from, DigitsEnd(line, from) - 1)), 1)

\* the crown and a space: "👑 "
StrCrown == <<55357, 56401, 32>>

\* "/6: "
StrOfSix == <<47, 54, 58, 32>>

\* what . does not match
IsLineTerminator(c) == c \in {10, 13, 8232, 8233}

\* line.match(/^(?:👑 )?([X\d])\/6: (.+)$/): the score token and
\* the rest of the line
ResultMatch(line) ==
    LET at   == IF HasAt(line, 1, StrCrown) THEN Len(StrCrown) + 1 ELSE 1
        rest == SubSeq(line, at + 1 + Len(StrOfSix), Len(line))
    IN  IF /\ at <= Len(line)
           /\ line[at] = 88 \/ IsDigit(line[at])
           /\ HasAt(line, at + 1, StrOfSix)
           /\ rest # <<>>
           /\ \A k \in 1..Len(rest) : ~IsLineTerminator(rest[k])
        THEN [matched |-> TRUE, token |-> line[at], rest |-> rest]
        ELSE [matched |-> FALSE]

\* the score of a score token: -1 for 'X', Number(digit) otherwise
ScoreOf(token) == IF token = 88 THEN Fail ELSE token - 48

\* the white space trim() removes
IsSpace(c) == c \in {9, 10, 11, 12, 13, 32, 160, 8232, 8233, 65279}

RECURSIVE TrimStart(_)
TrimStart(str) ==
    IF str # <<>> /\ IsSpace(Head(str)) THEN TrimStart(Tail(str)) ELSE str

RECURSIVE TrimEnd(_)
TrimEnd(str) ==
    IF str # <<>> /\ IsSpace(str[Len(str)])
    THEN TrimEnd(SubSeq(str, 1, Len(str) - 1)) ELSE str

\* String.prototype.trim
Trim(str) == TrimEnd(TrimStart(str))

\* "@" and "<@"
StrAt == <<64>>

StrMentionOpen == <<60, 64>>

\* the mutant of the boundary: a space before an "@" only
BoundaryBeforeAt(str, i) == str[i] = 32 /\ HasAt(str, i + 1, StrAt)

\* / (?=@|<@)/ matches at index i: a space before an "@" or a "<@"
IsUserBoundary(str, i) ==
    /\ str[i] = 32
    /\ HasAt(str, i + 1, StrAt) \/ HasAt(str, i + 1, StrMentionOpen)

\* userString.split(/ (?=@|<@)/g)
RECURSIVE SplitUsers(_, _, _)
SplitUsers(str, start, i) ==
    IF i > Len(str) THEN <<SubSeq(str, start, Len(str))>>
    ELSE IF IsUserBoundary(str, i)
         THEN <<SubSeq(str, start, i - 1)>> \o SplitUsers(str, i + 1, i + 1)
         ELSE SplitUsers(str, start, i + 1)

\* trimmed.match(/^<@!?([0-9]+)>$/): the digits, or no match
MentionMatch(trimmed) ==
    LET at == IF HasAt(trimmed, 3, <<33>>) THEN 4 ELSE 3
        e  == DigitsEnd(trimmed, at)
    IN  IF /\ HasAt(trimmed, 1, StrMentionOpen)
           /\ e > at
           /\ e = Len(trimmed)
           /\ trimmed[e] = 62
        THEN [matched |-> TRUE, id |-> SubSeq(trimmed, at, e - 1)]
        ELSE [matched |-> FALSE]

\* m.user.username.toLowerCase() throws for a member without a username
FilterThrows(members) ==
    \E i \in 1..Len(members) : ~Has(members[i], "username")

\* the predicate of guildMembers.filter
NameMatches(m, lowerUsername) ==
    \/ ToLowerCase(m.username) = lowerUsername
    \/ Has(m, "nick") /\ m.nick # <<>> /\ ToLowerCase(m.nick) = lowerUsername

\* the mutant of the lookup: the last match
ResolveLast(username, members) ==
    LET matches == SelectSeq(members, LAMBDA m : NameMatches(m, ToLowerCase(username)))
    IN  IF members # <<>> /\ matches # <<>> THEN matches[Len(matches)].id ELSE Null

\* the lookup of a plain @name in the roster: matches[0].user.id, or null
ResolveName(username, members) ==
    LET lowerUsername == ToLowerCase(username)
        matches == SelectSeq(members, LAMBDA m : NameMatches(m, lowerUsername))
    IN  IF members # <<>> /\ matches # <<>> THEN matches[1].id ELSE Null

NoResults == [threw |-> FALSE, results |-> <<>>]

\* what one part of the user string pushes, or that the lookup threw
PartResults(part, score, members) ==
    LET trimmed      == Trim(part)
        mentionMatch == MentionMatch(trimmed)
    IN  IF trimmed = <<>> THEN NoResults
        ELSE IF mentionMatch.matched
        THEN [threw |-> FALSE,
              results |-> <<[id |-> mentionMatch.id, score |-> score]>>]
        ELSE IF HasAt(trimmed, 1, StrAt)
        THEN IF members # <<>> /\ FilterThrows(members)
             THEN [threw |-> TRUE, results |-> <<>>]
             ELSE [threw |-> FALSE,
                   results |-> <<[id |-> ResolveName(Tail(trimmed), members),
                                  username |-> Tail(trimmed),
                                  score |-> score]>>]
        ELSE NoResults

\* one result after the others: a throw ends the parsing
ThenResults(first, rest) ==
    IF first.threw THEN first
    ELSE [threw |-> rest.threw, results |-> first.results \o rest.results]

RECURSIVE PartsResults(_, _, _)
PartsResults(userParts, score, members) ==
    IF userParts = <<>> THEN NoResults
    ELSE LET first == PartResults(Head(userParts), score, members)
         IN  IF first.threw THEN first
             ELSE ThenResults(first, PartsResults(Tail(userParts), score, members))

\* the results one line pushes
LineResults(line, members) ==
    LET resultMatch == ResultMatch(line)
    IN  IF ~resultMatch.matched THEN NoResults
        ELSE LET userString == Trim(resultMatch.rest)
             IN  PartsResults(SplitUsers(userString, 1, 1),
                              ScoreOf(resultMatch.token), members)

\* parseResults(lines, guildMembers)
RECURSIVE ParseResults(_, _)
ParseResults(lines, members) ==
    IF lines = <<>> THEN NoResults
    ELSE LET first == LineResults(Head(lines), members)
         IN  IF first.threw THEN first
             ELSE ThenResults(first, ParseResults(Tail(lines), members))

\* " solved and " and " unsolved games of Wordle"
StrSolvedAnd == <<32, 115, 111, 108, 118, 101, 100, 32, 97, 110, 100, 32>>

StrUnsolvedGames ==
    <<32, 117, 110, 115, 111, 108, 118, 101, 100, 32, 103, 97, 109, 101, 115,
      32, 111, 102, 32>> \o StrWordle

\* /(\d+) solved and (\d+) unsolved games of Wordle/ matches from index i
SolvedMatchAt(line, i) ==
    LET e1 == DigitsEnd(line, i)
        e2 == DigitsEnd(line, e1 + Len(StrSolvedAnd))
    IN  /\ e1 > i
        /\ HasAt(line, e1, StrSolvedAnd)
        /\ e2 > e1 + Len(StrSolvedAnd)
        /\ HasAt(line, e2, StrUnsolvedGames)

NoCounts == [solved |-> JsNull, unsolved |-> JsNull]

\* parseSolvedUnsolved(lines): the counts of the last line that matches
RECURSIVE ParseSolvedUnsolved(_)
ParseSolvedUnsolved(lines) ==
    IF lines = <<>> THEN NoCounts
    ELSE LET line   == lines[Len(lines)]
             starts == {i \in 1..Len(line) : SolvedMatchAt(line, i)}
         IN  IF starts = {}
             THEN ParseSolvedUnsolved(SubSeq(lines, 1, Len(lines) - 1))
             ELSE LET i  == CHOOSE s \in starts : \A t \in starts : s <= t
                      e1 == DigitsEnd(line, i)
                      f2 == e1 + Len(StrSolvedAnd)
                  IN  [solved |-> Quot(ParseInt(SubSeq(line, i, e1 - 1)), 1),
                       unsolved |->
                           Quot(ParseInt(SubSeq(line, f2, DigitsEnd(line, f2) - 1)), 1)]

\* what the caller of parseWordleSummary gets: null, a summary, or an error
ParseNull == [null |-> TRUE, raised |-> FALSE]

ParseRaised == [null |-> TRUE, raised |-> TRUE]

\* the mutant of parseWordleSummary: without the catch
ParseWithoutCatch(content, members) ==
    LET lines  == SplitLines(content)
        streak == ParseStreak(lines[1])
        pushed == ParseResults(lines, members)
        counts == ParseSolvedUnsolved(lines)
    IN  IF pushed.threw THEN ParseRaised
        ELSE IF streak # JsNull /\ Len(pushed.results) > 0
        THEN [null |-> FALSE, raised |-> FALSE, streak |-> streak,
              results |-> pushed.results, solved |-> counts.solved,
              unsolved |-> counts.unsolved]
        ELSE ParseNull

\* the mutant of parseWordleSummary: a streak is enough
ParseStreakOnly(content, members) ==
    LET lines  == SplitLines(content)
        streak == ParseStreak(lines[1])
        pushed == ParseResults(lines, members)
        counts == ParseSolvedUnsolved(lines)
    IN  IF pushed.threw THEN ParseNull
        ELSE IF streak # JsNull
        THEN [null |-> FALSE, raised |-> FALSE, streak |-> streak,
              results |-> pushed.results, solved |-> counts.solved,
              unsolved |-> counts.unsolved]
        ELSE ParseNull

\* parseWordleSummary(content, guildMembers): a throw in the body is caught
ParseWordleSummary(content, members) ==
    LET lines  == SplitLines(content)
        streak == ParseStreak(lines[1])
        pushed == ParseResults(lines, members)
        counts == ParseSolvedUnsolved(lines)
    IN  IF pushed.threw THEN ParseNull
        ELSE IF streak # JsNull /\ Len(pushed.results) > 0
        THEN [null |-> FALSE, raised |-> FALSE, streak |-> streak,
              results |-> pushed.results, solved |-> counts.solved,
              unsolved |-> counts.unsolved]
        ELSE ParseNull

\* the lines joined by "\n"
RECURSIVE JoinLines(_)
JoinLines(lines) ==
    IF lines = <<>> THEN <<>>
    ELSE IF Len(lines) = 1 THEN lines[1]
    ELSE lines[1] \o <<10>> \o JoinLines(Tail(lines))

\* "on a 2 day streak Wordle" and "day streak Wordle"
StrStreakWordle == StrOnA \o <<50>> \o StrDayStreak \o <<32>> \o StrWordle

StrNoCountWordle == StrDayStreakWord \o <<32>> \o StrWordle

\* "hello"
StrHello == <<104, 101, 108, 108, 111>>

\* the messages of the channel, oldest first: a summary "3/6: @Alice",
\* a message that is no summary, a summary whose first line has no day
\* count, a summary "X/6: <@2>" and a summary "2/6: <@1>"
Channel ==
    << [id |-> 1, timestamp |-> 19724 * 24 + 5,
        content |-> JoinLines(<<StrStreakWordle,
                                <<51>> \o StrOfSix \o StrAt \o StrAliceCap>>)],
       [id |-> 2, timestamp |-> 19724 * 24 + 5, content |-> StrHello],
       [id |-> 3, timestamp |-> 19725 * 24 + 4,
        content |-> JoinLines(<<StrNoCountWordle,
                                <<52>> \o StrOfSix \o StrMentionOpen \o Id1 \o <<62>> >>)],
       [id |-> 4, timestamp |-> 19725 * 24 + 5,
        content |-> JoinLines(<<StrStreakWordle,
                                <<88>> \o StrOfSix \o StrMentionOpen \o Id2 \o <<62>> >>)],
       [id |-> 5, timestamp |-> 19725 * 24 + 5,
        content |-> JoinLines(<<StrStreakWordle,
                                <<50>> \o StrOfSix \o StrMentionOpen \o Id1 \o <<62>> >>)] >>

RECURSIVE Reverse(_)
Reverse(s) == IF s = <<>> THEN <<>> ELSE Append(Reverse(Tail(s)), Head(s))

\* the messages fetchMessages reads when no page fails: newest first,
\* down to the first message older than since
FetchWindow(since, at) ==
    Reverse(SelectSeq(Channel, LAMBDA m : m.timestamp >= since /\ m.timestamp <= at))

\* fetchMessages(channelId, token, since): a page that fails ends the
\* reading and the messages read so far are returned
FetchMessages(since, at) ==
    LET window == FetchWindow(since, at)
    IN  {SubSeq(window, 1, n) : n \in 0..Len(window)}

\* the instants at which a workflow starts
RunInstants == {19724 * 24 + 6, 19724 * 24 + 12, 19725 * 24 + 6}

\* the date option of /initsetup: none, no date, 2024-01-01, 2024-01-03
SetupOptions ==
    {[given |-> "none", since |-> 0], [given |-> "bad", since |-> 0],
     [given |-> "date", since |-> 19723 * 24],
     [given |-> "date", since |-> 19725 * 24]}

\* 12 * 60 * 60 * 1000 ms
TrackWindow == 12

\* 24 * 60 * 60 * 1000 ms
DayHours == 24

\* a run enters its loop
BeginRun(k, at, msgs, members) ==
    /\ kind' = k
    /\ now' = at
    /\ allMessages' = msgs
    /\ guildMembers' = members
    /\ idx' = 1
    /\ storedCount' = 0
    /\ checkedCount' = 0
    /\ fpc' = "loop"
    /\ runLog' = NoRunLog

\* trackWordleResults is called: the messages of the last 12 hours
\* and the roster are fetched
TrackStart ==
    \E at \in RunInstants, members \in Rosters :
        \E msgs \in FetchMessages(at - TrackWindow, at) :
            /\ fpc = "idle"
            /\ nruns < MaxRuns
            /\ at >= now
            /\ nruns' = nruns + 1
            /\ BeginRun("track", at, msgs, members)
            /\ apc' = "ready"
            /\ agg' = NoStats
            /\ UNCHANGED <<storeVars, userIdToName, reply, posted, report, parsed, fetchVars>>

SetupReply(content) == [content |-> content, stored |-> 0, checked |-> 0]

\* ghost: res.send has been called once in a request that did nothing else
OneReply == [NoRunLog EXCEPT !.replies = 1]

\* InitSetupCommand.execute is called: up to the loop
SetupStart ==
    \E at \in RunInstants, option \in SetupOptions, configured \in BOOLEAN,
       members \in Rosters :
        /\ fpc = "idle"
        /\ nruns < MaxRuns
        /\ at >= now
        /\ nruns' = nruns + 1
        /\ apc' = "ready"
        /\ agg' = NoStats
        /\ UNCHANGED <<storeVars, userIdToName, posted, report, parsed, fetchVars>>
        /\ IF option.given # "date" \/ ~configured
           THEN /\ reply' = SetupReply(IF option.given = "none" THEN "needDate"
                                       ELSE IF option.given = "bad" THEN "invalidDate"
                                       ELSE "missing")
                /\ now' = at
                /\ kind' = "setup"
                /\ runLog' = OneReply
                /\ UNCHANGED <<fpc, allMessages, guildMembers, idx,
                               storedCount, checkedCount>>
           ELSE \E msgs \in FetchMessages(option.since, at) :
                   IF msgs = <<>>
                   THEN /\ reply' = SetupReply("noMessages")
                        /\ now' = at
                        /\ kind' = "setup"
                        /\ allMessages' = msgs
                        /\ runLog' = OneReply
                        /\ UNCHANGED <<fpc, guildMembers, idx, storedCount,
                                       checkedCount>>
                   ELSE /\ reply' = NoReply
                        /\ BeginRun("setup", at, msgs, members)

\* one turn of the loop over allMessages, up to the await of
\* storeWordleResult
LoopStep ==
    /\ fpc = "loop"
    /\ idx <= Len(allMessages)
    /\ LET msg    == allMessages[idx]
           summary == ParseWordleSummary(msg.content, guildMembers)
       IN  /\ parsed' = summary
           /\ checkedCount' = IF kind = "setup" /\ IsWordleSummary(msg.content)
                              THEN checkedCount + 1 ELSE checkedCount
           /\ IF IsWordleSummary(msg.content) /\ ~summary.null
              THEN /\ StoreEnter(1, msg.timestamp - DayHours, summary.results, msg.id)
                   /\ fpc' = "store"
                   /\ idx' = idx
                   /\ runLog' = [runLog EXCEPT !.attempts = @ \cup {msg.id}]
              ELSE /\ idx' = idx + 1
                   /\ runLog' = runLog
                   /\ UNCHANGED <<storeVars, fpc>>
    /\ UNCHANGED <<aggVars, kind, allMessages, guildMembers, storedCount,
                   reply, posted, report, nruns, fetchVars>>

\* the steps of the storeWordleResult that the loop awaits
FlowGet == fpc = "store" /\ StoreGet(1) /\ UNCHANGED <<aggVars, flowVars>>

FlowAdd == fpc = "store" /\ StoreAdd(1) /\ UNCHANGED <<aggVars, flowVars>>

FlowError == fpc = "store" /\ StoreError(1) /\ UNCHANGED <<aggVars, flowVars>>

\* the mutant of the return: a store that failed ends the run
StoreResumedAborts ==
    /\ fpc = "store"
    /\ StoreReturn(1)
    /\ storedCount' = IF kind = "setup" THEN storedCount + 1 ELSE storedCount
    /\ idx' = idx + 1
    /\ fpc' = IF outcome[1] = "error" THEN "idle" ELSE "loop"
    /\ runLog' = [runLog EXCEPT !.storeFailed = @ \/ outcome[1] = "error",
                                !.appended = IF outcome[1] = "added" THEN @ + 1
                                             ELSE @]
    /\ UNCHANGED <<aggVars, kind, allMessages, guildMembers, checkedCount,
                   reply, posted, report, nruns, parsed, fetchVars>>

\* storeWordleResult has returned: /initsetup counts, the loop goes on
StoreResumed ==
    /\ fpc = "store"
    /\ StoreReturn(1)
    /\ storedCount' = IF kind = "setup" THEN storedCount + 1 ELSE storedCount
    /\ idx' = idx + 1
    /\ fpc' = "loop"
    /\ runLog' = [runLog EXCEPT !.storeFailed = @ \/ outcome[1] = "error",
                                !.appended = IF outcome[1] = "added" THEN @ + 1
                                             ELSE @]
    /\ UNCHANGED <<aggVars, kind, allMessages, guildMembers, checkedCount,
                   reply, posted, report, nruns, parsed, fetchVars>>

\* the loop is over: /initsetup replies, the tracking goes on to the report
LoopEnd ==
    /\ fpc = "loop"
    /\ idx > Len(allMessages)
    /\ IF kind = "setup"
       THEN /\ reply' = [content |-> "complete", stored |-> storedCount,
                         checked |-> checkedCount]
            /\ runLog' = [runLog EXCEPT !.replies = @ + 1]
            /\ fpc' = "idle"
       ELSE /\ reply' = reply
            /\ runLog' = runLog
            /\ fpc' = "aggregate"
    /\ UNCHANGED <<storeVars, aggVars, kind, allMessages, guildMembers, idx,
                   storedCount, checkedCount, posted, report, nruns, parsed, fetchVars>>

\* userIdToName[member.user.id] = member.nick || member.user.username
RECURSIVE NameMap(_)
NameMap(members) ==
    IF members = <<>> THEN <<>>
    ELSE LET init == NameMap(SubSeq(members, 1, Len(members) - 1))
             m    == members[Len(members)]
             name == IF m.nick # <<>> THEN m.nick ELSE m.username
         IN  [userId \in DOMAIN init \cup {m.id} |->
                 IF userId = m.id THEN name ELSE init[userId]]

\* the mutant of the catch: what a step throws goes to the caller
WithoutCatch(threw) == threw

\* the catch of trackWordleResults logs what a step threw: the caller
\* gets no error
CatchInOrchestrator(threw) == FALSE

\* the report is aggregated; a read that fails ends the run in the catch
AggregateStep ==
    \E failed \in BOOLEAN :
        /\ fpc = "aggregate"
        /\ userIdToName' = NameMap(guildMembers)
        /\ agg' = IF failed THEN Thrown
                  ELSE AggregateWordleStats(wordleResults, userIdToName', now)
        /\ apc' = "done"
        /\ fpc' = IF agg'.threw THEN "idle" ELSE "post"
        /\ runLog' = [runLog EXCEPT !.threw = agg'.threw,
                                    !.raised = CatchInOrchestrator(agg'.threw)]
        /\ UNCHANGED <<storeVars, now, kind, allMessages, guildMembers, idx,
                       storedCount, checkedCount, reply, posted, report, nruns, parsed, fetchVars>>

\* postResultsInfographic: the request is accepted or not, and the body
\* of an accepted one is read or not; it returns or throws into the catch
PostStep ==
    \E sent \in BOOLEAN, read \in BOOLEAN :
        /\ fpc = "post"
        /\ report' = BuildResultsInfographic(agg, StatsOrder)
        /\ posted' = IF sent THEN posted + 1 ELSE posted
        /\ runLog' = [runLog EXCEPT !.posts = IF sent THEN @ + 1 ELSE @,
                                    !.threw = ~sent \/ ~read,
                                    !.raised = CatchInOrchestrator(~sent \/ ~read)]
        /\ fpc' = "idle"
        /\ UNCHANGED <<storeVars, aggVars, kind, allMessages, guildMembers, idx,
                       storedCount, checkedCount, reply, nruns, parsed, fetchVars>>

InitFlow == StoreInit /\ AggIdle /\ FlowIdle

NextFlow ==
    \/ TrackStart
    \/ SetupStart
    \/ LoopStep
    \/ FlowGet
    \/ FlowAdd
    \/ FlowError
    \/ StoreResumed
    \/ LoopEnd
    \/ AggregateStep
    \/ PostStep

SpecFlow == InitFlow /\ [][NextFlow]_vars

----------------------------------------------------------------------------
(* The slash commands that handleInteraction dispatches *)

\* ghost mutant of the catch: the error is logged and nothing is sent
CommandCatchSilent(log) == [log EXCEPT !.threw = TRUE]

\* the catch of a command's execute: the error becomes the text of a reply
CommandCatch(log) == [log EXCEPT !.threw = TRUE, !.replies = @ + 1]

\* the catch of handleInteraction: an error that execute raises is
\* answered with status 500
HandlerCatch(log) ==
    IF log.raised THEN [log EXCEPT !.replies = @ + 1] ELSE log

\* the user option of /personalstats: none, user 1, user 2
StatsOptions == {<<>>, Id1, Id2}

\* a command other than /initsetup is dispatched: the request is a new run
CommandBegin(k, at) ==
    /\ fpc = "idle"
    /\ nruns < MaxRuns
    /\ at >= now
    /\ nruns' = nruns + 1
    /\ now' = at
    /\ kind' = k
    /\ apc' = "ready"
    /\ agg' = NoStats
    /\ UNCHANGED <<storeVars, userIdToName, allMessages, idx, storedCount,
                   checkedCount, posted, report, parsed, fetchVars>>

\* HelpCommand.execute: one reply with the embed
HelpExecute ==
    \E at \in RunInstants :
        /\ CommandBegin("help", at)
        /\ reply' = SetupReply("help")
        /\ runLog' = HandlerCatch(OneReply)
        /\ UNCHANGED <<fpc, guildMembers>>

\* PrintResultsCommand.execute up to the await of aggregateWordleStats
PrintStart ==
    \E at \in RunInstants, configured \in BOOLEAN, members \in Rosters :
        /\ CommandBegin("print", at)
        /\ IF ~configured
           THEN /\ reply' = SetupReply("missing")
                /\ runLog' = HandlerCatch(OneReply)
                /\ UNCHANGED <<fpc, guildMembers>>
           ELSE /\ reply' = NoReply
                /\ runLog' = NoRunLog
                /\ guildMembers' = members
                /\ fpc' = "stats"

\* PersonalStatsCommand.execute up to the await of aggregateWordleStats;
\* the user option is kept in the reply that is being made
StatsStart ==
    \E at \in RunInstants, userId \in StatsOptions, configured \in BOOLEAN,
       members \in Rosters :
        /\ CommandBegin("personal", at)
        /\ IF userId = <<>> \/ ~configured
           THEN /\ reply' = SetupReply(IF userId = <<>> THEN "needUser"
                                       ELSE "missing")
                /\ runLog' = HandlerCatch(OneReply)
                /\ UNCHANGED <<fpc, guildMembers>>
           ELSE /\ reply' = [content |-> "none", stored |-> 0, checked |-> 0,
                             user |-> userId]
                /\ runLog' = NoRunLog
                /\ guildMembers' = members
                /\ fpc' = "stats"

\* aggregateWordleStats returns to a command or throws into its catch;
\* /personalstats replies, /printresults goes on to the report
CommandAggregate ==
    \E failed \in BOOLEAN :
        /\ fpc = "stats"
        /\ userIdToName' = NameMap(guildMembers)
        /\ agg' = IF failed THEN Thrown
                  ELSE AggregateWordleStats(wordleResults, userIdToName', now)
        /\ apc' = "done"
        /\ IF agg'.threw
           THEN /\ reply' = SetupReply("error")
                /\ runLog' = HandlerCatch(CommandCatch(runLog))
                /\ fpc' = "idle"
           ELSE IF kind = "print"
           THEN /\ reply' = reply
                /\ runLog' = runLog
                /\ fpc' = "report"
           ELSE /\ reply' = [reply EXCEPT !.content =
                                IF reply.user \in DOMAIN agg'.userStats
                                THEN "embed" ELSE "noStats"]
                /\ runLog' = HandlerCatch([runLog EXCEPT !.replies = @ + 1])
                /\ fpc' = "idle"
        /\ UNCHANGED <<storeVars, now, kind, allMessages, guildMembers, idx,
                       storedCount, checkedCount, posted, report, nruns, parsed,
                       fetchVars>>

\* postResultsInfographic returns to /printresults or throws into its
\* catch: one reply either way
CommandPost ==
    \E sent \in BOOLEAN, read \in BOOLEAN :
        /\ fpc = "report"
        /\ report' = BuildResultsInfographic(agg, StatsOrder)
        /\ posted' = IF sent THEN posted + 1 ELSE posted
        /\ LET log == [runLog EXCEPT !.posts = IF sent THEN @ + 1 ELSE @]
           IN  IF sent /\ read
               THEN /\ reply' = SetupReply("posted")
                    /\ runLog' = HandlerCatch([log EXCEPT !.replies = @ + 1])
               ELSE /\ reply' = SetupReply("error")
                    /\ runLog' = HandlerCatch(CommandCatch(log))
        /\ fpc' = "idle"
        /\ UNCHANGED <<storeVars, aggVars, kind, allMessages, guildMembers, idx,
                       storedCount, checkedCount, nruns, parsed, fetchVars>>

NextCommand ==
    \/ SetupStart
    \/ LoopStep
    \/ FlowGet
    \/ FlowAdd
    \/ FlowError
    \/ StoreResumed
    \/ LoopEnd
    \/ HelpExecute
    \/ PrintStart
    \/ StatsStart
    \/ CommandAggregate
    \/ CommandPost

SpecCommand == InitFlow /\ [][NextCommand]_vars

----------------------------------------------------------------------------
(* parseWordleSummary on its own: the texts and the rosters it is given *)

\* the user tokens of a score line
MaxTokens == 2

\* the lines after the first line of a text
MaxBodyLines == 2

\* "Z"
StrZ == <<90>>

\* ghost: a token as it was written: @name, <@id>, <@!id>, a word
\* without a marker, mention brackets around a name
TokenShapes ==
    {[form |-> "plain", text |-> StrAliceCap], [form |-> "plain", text |-> StrZ],
     [form |-> "mention", text |-> Id1], [form |-> "nick", text |-> Id2],
     [form |-> "bare", text |-> StrAliceCap], [form |-> "open", text |-> StrZ]}

RenderToken(t) ==
    CASE t.form = "plain"   -> StrAt \o t.text
      [] t.form = "mention" -> StrMentionOpen \o t.text \o <<62>>
      [] t.form = "nick"    -> StrMentionOpen \o <<33>> \o t.text \o <<62>>
      [] t.form = "bare"    -> t.text
      [] t.form = "open"    -> StrMentionOpen \o t.text \o <<62>>

\* the tokens separated by one space, or by two and followed by one
RECURSIVE RenderUsers(_, _)
RenderUsers(users, pad) ==
    IF users = <<>> THEN <<>>
    ELSE (IF pad THEN <<32>> ELSE <<>>) \o RenderToken(Head(users))
         \o (IF Len(users) > 1 \/ pad THEN <<32>> ELSE <<>>)
         \o RenderUsers(Tail(users), pad)

\* the score tokens: X, 3, 6, and 0, 7, x
ScoreTokens == {88, 51, 54, 48, 55, 120}

\* ghost: a score line as it was written
ScoreLines(maxTokens) ==
    {[kind |-> "score", crown |-> style = "crown", pad |-> style = "pad",
      token |-> token, users |-> users] :
        style \in {"plain", "crown", "pad"}, token \in ScoreTokens,
        users \in UNION {[1..n -> TokenShapes] : n \in 1..maxTokens}}

\* "2 solved and 1 unsolved games of Wordle"
StrCounts == <<50>> \o StrSolvedAnd \o <<49>> \o StrUnsolvedGames

TextLine(text) == [kind |-> "text", text |-> text]

ScoreLine(token, users) ==
    [kind |-> "score", crown |-> FALSE, pad |-> FALSE, token |-> token,
     users |-> users]

\* the lines a text can have after its second line
LaterLines ==
    {TextLine(<<>>), TextLine(StrCounts),
     TextLine(<<51>> \o StrOfSix \o StrMentionOpen \o Id1 \o <<62, 13>>),
     ScoreLine(52, <<[form |-> "nick", text |-> Id2]>>),
     ScoreLine(88, <<[form |-> "plain", text |-> StrAliceCap]>>)}

RenderLine(l) ==
    IF l.kind = "text" THEN l.text
    ELSE (IF l.crown THEN StrCrown ELSE <<>>) \o <<l.token>> \o StrOfSix
         \o RenderUsers(l.users, l.pad)

\* the first lines: "on a 2 day streak Wordle", "on a 12 day streak",
\* "day streak Wordle", ""
FirstLines ==
    {StrStreakWordle, StrOnA \o <<49, 50>> \o StrDayStreak, StrNoCountWordle, <<>>}

\* ghost: the texts as they were written
RECURSIVE Bodies(_, _)
Bodies(maxLines, maxTokens) ==
    IF maxLines = 0 THEN {<<>>}
    ELSE IF maxLines = 1
    THEN {<<>>} \cup {<<l>> : l \in ScoreLines(maxTokens) \cup {TextLine(StrCounts)}}
    ELSE LET shorter == Bodies(maxLines - 1, maxTokens)
         IN  shorter \cup {Append(b, l) :
                              b \in {s \in shorter : Len(s) = maxLines - 1},
                              l \in LaterLines}

TextShapes(maxLines, maxTokens) ==
    {[first |-> first, body |-> body] :
        first \in FirstLines, body \in Bodies(maxLines, maxTokens)}

\* the text of a shape
Render(shape) ==
    JoinLines(<<shape.first>> \o [i \in 1..Len(shape.body) |-> RenderLine(shape.body[i])])

\* members with the username of MemberAlice, and without a username
MemberTwin == [id |-> Id2, username |-> StrAlice]

MemberPartial == [id |-> Id2, nick |-> StrAliceCap]

\* the rosters parseWordleSummary is given
ParseRosters ==
    {<<>>, <<MemberAlice>>, <<MemberAl, MemberAlice>>, <<MemberAlice, MemberAl>>,
     <<MemberTwin, MemberAlice>>, <<MemberAlice, MemberPartial>>}

InitParse ==
    /\ StoreInit
    /\ AggIdle
    /\ FetchIdle
    /\ fpc = "parse"
    /\ kind = "parse"
    /\ allMessages \in {<<[id |-> 0, timestamp |-> 0, content |-> Render(shape),
                          shape |-> shape]>> :
                           shape \in TextShapes(MaxBodyLines, MaxTokens)}
    /\ guildMembers \in ParseRosters
    /\ idx = 1
    /\ storedCount = 0
    /\ checkedCount = 0
    /\ reply = NoReply
    /\ posted = 0
    /\ report = NoReport
    /\ nruns = 0
    /\ parsed = NoParse
    /\ runLog = NoRunLog

\* parseWordleSummary(content, guildMembers) is called and returns
ParseStep ==
    /\ fpc = "parse"
    /\ parsed' = ParseWordleSummary(allMessages[idx].content, guildMembers)
    /\ fpc' = "parsed"
    /\ UNCHANGED <<storeVars, aggVars, kind, allMessages, guildMembers, idx,
                   storedCount, checkedCount, reply, posted, report, nruns, runLog,
                   fetchVars>>

SpecParse == InitParse /\ [][ParseStep]_vars

\* ghost: what was parsed, and the call has returned
Shape == allMessages[1].shape

ParseReturned == fpc = "parsed"

----------------------------------------------------------------------------
(* fetchMessages and fetchGuildMembers: the loop over the pages *)

\* MESSAGE_FETCH_LIMIT and GUILD_MEMBER_FETCH_LIMIT, scaled down
PageLimit == 2

\* let backoff = 1000
BackoffStart == 1000

\* Math.min(backoff * 2, 30000)
BackoffMax == 30000

\* what the remote holds: the messages of a channel, newest first, or
\* the members of a guild
RemoteChannels == {Reverse(SubSeq(Channel, 1, n)) : n \in 0..Len(Channel)}

RemoteGuilds ==
    {<<>>, <<MemberAlice>>, <<MemberAl, MemberAlice>>,
     <<MemberAl, MemberAlice, MemberTwin>>}

\* the since of fetchMessages: 2024-01-01, 2024-01-02 05:00, 2024-01-03,
\* 2024-01-04
FetchSinces == {19723 * 24, 19724 * 24 + 5, 19725 * 24, 19726 * 24}

\* data.retry_after in units of half a millisecond: 0 when the body has
\* none, 500.5 ms, 5 s, 40 s
RetryAfters == {0, 1001, 10000, 80000}

\* ghost: the count of 429 answers in a row stops here; the backoff is at
\* its cap from the sixth on
SeenThrottles == 6

\* Math.ceil(data.retry_after * 1000)
CeilMs(halves) == (halves + 1) \div 2

\* the page the remote answers with after the items already paged
Page(items, after) ==
    SubSeq(items, after + 1,
           IF after + PageLimit < Len(items) THEN after + PageLimit ELSE Len(items))

\* the mutant of the for loop: every message of the page is pushed
TakeAll(messages, sinceAt) == messages

\* the for loop over the messages of a page: push until one is older
\* than since
RECURSIVE TakeNewer(_, _)
TakeNewer(messages, sinceAt) ==
    IF messages = <<>> \/ Head(messages).timestamp < sinceAt THEN <<>>
    ELSE <<Head(messages)>> \o TakeNewer(Tail(messages), sinceAt)

\* the mutant of the break: the error goes to the caller
BreakRaises(acc) == [fetched |-> <<>>, raised |-> TRUE]

\* break, then return allMessages: what the caller gets
BreakLoop(acc) == [fetched |-> acc, raised |-> FALSE]

\* fetchMessages or fetchGuildMembers is called: up to the first request
FetchCall ==
    \E f \in {"messages", "members"} :
        \E items \in IF f = "messages" THEN RemoteChannels ELSE RemoteGuilds,
           sinceAt \in IF f = "messages" THEN FetchSinces ELSE {0} :
            /\ qpc = "idle"
            /\ qpc' = "request"
            /\ fetcher' = f
            /\ remote' = items
            /\ fetchSince' = sinceAt
            /\ cursor' = 0
            /\ fetched' = <<>>
            /\ backoff' = BackoffStart
            /\ UNCHANGED <<retryAfter, lastResponse, fetchRaised, pagesRead, throttles,
                           retryGiven>>
            /\ UNCHANGED <<storeVars, aggVars, loopVars>>

\* the response has status 429: the wait is started
Throttled ==
    \E given \in RetryAfters :
        /\ qpc = "request"
        /\ retryAfter' = IF given # 0 THEN CeilMs(given) ELSE backoff
        /\ lastResponse' = "throttled"
        /\ qpc' = "wait"
        /\ throttles' = IF throttles < SeenThrottles THEN throttles + 1 ELSE throttles
        /\ retryGiven' = given
        /\ UNCHANGED <<fetcher, remote, fetchSince, cursor, fetched, backoff,
                       fetchRaised, pagesRead>>
        /\ UNCHANGED <<storeVars, aggVars, loopVars>>

\* the mutant of the retry: the backoff stays as it is
RetryPageSameBackoff ==
    /\ qpc = "wait"
    /\ qpc' = "request"
    /\ UNCHANGED <<fetcher, remote, fetchSince, cursor, fetched, retryAfter, backoff,
                   lastResponse, fetchRaised, pagesRead, throttles, retryGiven>>
    /\ UNCHANGED <<storeVars, aggVars, loopVars>>

\* the wait is over: the backoff doubles and the same page is asked again
RetryPage ==
    /\ qpc = "wait"
    /\ backoff' = IF backoff * 2 < BackoffMax THEN backoff * 2 ELSE BackoffMax
    /\ qpc' = "request"
    /\ UNCHANGED <<fetcher, remote, fetchSince, cursor, fetched, retryAfter,
                   lastResponse, fetchRaised, pagesRead, throttles, retryGiven>>
    /\ UNCHANGED <<storeVars, aggVars, loopVars>>

\* the loop is left by a break
Break(response) ==
    /\ lastResponse' = response
    /\ fetched' = BreakLoop(fetched).fetched
    /\ fetchRaised' = BreakLoop(fetched).raised
    /\ qpc' = "returned"
    /\ throttles' = IF response = "status" THEN 0 ELSE throttles
    /\ UNCHANGED <<fetcher, remote, fetchSince, cursor, retryAfter, pagesRead,
                   retryGiven>>
    /\ UNCHANGED <<storeVars, aggVars, loopVars>>

\* the response has another status that is not ok
StatusError ==
    /\ qpc = "request"
    /\ backoff' = BackoffStart
    /\ Break("status")

\* fetch or the reading of the body rejects: the catch
NetworkError ==
    /\ qpc = "request"
    /\ backoff' = backoff
    /\ Break("network")

\* the response is ok and has the next page
PageRead ==
    /\ qpc = "request"
    /\ backoff' = BackoffStart
    /\ lastResponse' = "page"
    /\ pagesRead' = pagesRead + 1
    /\ throttles' = 0
    /\ LET page  == Page(remote, cursor)
           newer == IF fetcher = "messages" THEN TakeNewer(page, fetchSince) ELSE page
       IN  /\ fetched' = fetched \o newer
           /\ cursor' = cursor + Len(page)
           /\ qpc' = IF Len(newer) = Len(page) /\ Len(page) = PageLimit
                     THEN "request" ELSE "returned"
    /\ UNCHANGED <<fetcher, remote, fetchSince, retryAfter, fetchRaised, retryGiven>>
    /\ UNCHANGED <<storeVars, aggVars, loopVars>>

InitFetch == StoreInit /\ AggIdle /\ FlowIdle

NextFetch ==
    \/ FetchCall
    \/ Throttled
    \/ RetryPage
    \/ StatusError
    \/ NetworkError
    \/ PageRead

SpecFetch == InitFetch /\ [][NextFetch]_vars

\* every request is answered and every timer fires: the loop takes its
\* next step
SpecFetchLive == SpecFetch /\ WF_vars(NextFetch)

\* the remote, moreover, does not throttle one page for ever
SpecFetchRelenting ==
    SpecFetchLive /\ SF_vars(StatusError \/ NetworkError \/ PageRead)

----------------------------------------------------------------------------
(* Claims about storeWordleResult *)

StoredDoc(p) ==
    [date |-> firestoreData[p].date, results |-> firestoreData[p].results]

\* Two stored batches of one date never list the same identities the same
\* number of times, as long as the invocations did not overlap: what the
\* comparison of the sorted, joined lists gives.
StoreKeepsIdListsDistinct ==
    ~overlapped =>
        \A i, j \in 1..Len(wordleResults) :
            (i < j /\ wordleResults[i].date = wordleResults[j].date) =>
                \E x \in Identities :
                    IdCount(wordleResults[i].results, x)
                        # IdCount(wordleResults[j].results, x)

\* C1: after invocations of storeWordleResult that did not overlap, no two
\* stored batches of one dateKey have equal sets of participant identities,
\* also when an identity occurs more than once in a batch or is null.
C1_NoTwoBatchesWithEqualIdSets ==
    ~overlapped =>
        \A i, j \in 1..Len(wordleResults) :
            (i < j /\ wordleResults[i].date = wordleResults[j].date) =>
                IdSet(wordleResults[i].results) # IdSet(wordleResults[j].results)

\* C2: an invocation whose batch has a set of identities different from
\* that of every batch stored under its dateKey when it reads the store is
\* not discarded as a duplicate; unless the read or the write fails, the
\* batch is in the store when the invocation returns.
C2_DifferentIdSetIsAppended ==
    \A p \in Procs :
        fresh[p] =>
            /\ ~isDuplicate[p]
            /\ outcome[p] # "skipped"
            /\ (spc[p] \in {"ret", "idle"} /\ outcome[p] # "error") =>
                   /\ outcome[p] = "added"
                   /\ \E i \in 1..Len(wordleResults) :
                          wordleResults[i] = StoredDoc(p)

\* a batch was appended although a batch of its date with the same
\* identities apart from null ones was stored
C2_Witness ==
    \E p \in Procs :
        /\ fresh[p]
        /\ outcome[p] = "added"
        /\ \E i \in 1..Len(wordleResults) :
               /\ wordleResults[i].date = firestoreData[p].date
               /\ IdSet(wordleResults[i].results) \ {Null}
                      = IdSet(firestoreData[p].results) \ {Null}
               /\ IdSet(wordleResults[i].results)
                      # IdSet(firestoreData[p].results)

\* C3: an invocation that passed the duplicate check inserts its batch
\* whatever the store holds by then (only an error of the write prevents
\* it), so that two overlapping invocations for one date and one list of
\* identities can both pass the check and both insert.
C3_CheckedBatchIsInserted ==
    [][\A p \in Procs :
          (spc[p] = "add" /\ spc'[p] # "add") =>
              \/ outcome'[p] = "error" /\ wordleResults' = wordleResults
              \/ /\ outcome'[p] = "added"
                 /\ wordleResults' = Append(wordleResults, StoredDoc(p))]_vars

\* both invocations read before either inserted, and the store holds the
\* batch twice
C3_Witness ==
    /\ overlapped
    /\ outcome[1] = "added" /\ outcome[2] = "added"
    /\ firestoreData[1] = firestoreData[2]
    /\ Len(wordleResults) = 2
    /\ wordleResults[1] = wordleResults[2]
    /\ wordleResults[1] = StoredDoc(1)

----------------------------------------------------------------------------
(* Claims about aggregateWordleStats *)

Returned == apc = "done" /\ ~agg.threw

\* the places <<i, k>> of the stored results
Places ==
    UNION {{<<i, k>> : k \in 1..Len(wordleResults[i].results)} :
               i \in 1..Len(wordleResults)}

PlaceId(pl) == wordleResults[pl[1]].results[pl[2]].id

PlaceDay(pl) == DaysFromCivil(wordleResults[pl[1]].date)

PlaceSolved(pl) == wordleResults[pl[1]].results[pl[2]].score # Fail

GamePlaces(userId) == {pl \in Places : PlaceId(pl) = userId}

StoredUsers == {PlaceId(pl) : pl \in Places} \ {Null}

\* the length of the longest run of consecutive days within days
LongestRun(days) ==
    LET lengths == {n \in 0..Cardinality(days) :
                       n = 0 \/ \E d \in days : \A e \in d..(d + n - 1) : e \in days}
    IN  CHOOSE n \in lengths : \A m \in lengths : m <= n

SolvedDays(userId) == {PlaceDay(pl) : pl \in {q \in GamePlaces(userId) : PlaceSolved(q)}}

FailedDays(userId) == {PlaceDay(pl) : pl \in {q \in GamePlaces(userId) : ~PlaceSolved(q)}}

\* C5: for every stored history, also one with several batches on a
\* date, maxStreak of a user is the length of the longest run of
\* consecutive calendar days with a solved result of the user, a failed
\* result or a gap of more than one day breaking the run.  Stated for the
\* users without a failed result, where nothing but a gap breaks a run.
C5_MaxStreakIsLongestRunOfDays ==
    Returned =>
        \A userId \in DOMAIN agg.userStats :
            FailedDays(userId) = {} =>
                agg.userStats[userId].maxStreak = LongestRun(SolvedDays(userId))

\* with one game a day the forward pass does give the longest run
MaxStreakOfOneGameADay ==
    Returned =>
        \A userId \in DOMAIN agg.userStats :
            (/\ FailedDays(userId) = {}
             /\ Cardinality(GamePlaces(userId)) = Cardinality(SolvedDays(userId)))
                => agg.userStats[userId].maxStreak = LongestRun(SolvedDays(userId))

Today == now \div 24

\* the user has exactly three games, solved, on the days d, d + 1, d + 2
ThreeSolvedDays(userId, d) ==
    /\ Cardinality(GamePlaces(userId)) = 3
    /\ {PlaceDay(pl) : pl \in GamePlaces(userId)} = {d, d + 1, d + 2}
    /\ \A pl \in GamePlaces(userId) : PlaceSolved(pl)

DayRange == 19722..19726

IsLastPlace(userId, pl) ==
    /\ pl \in GamePlaces(userId)
    /\ \A q \in GamePlaces(userId) :
           \/ PlaceDay(q) < PlaceDay(pl)
           \/ /\ PlaceDay(q) = PlaceDay(pl)
              /\ q[1] < pl[1] \/ (q[1] = pl[1] /\ q[2] <= pl[2])

\* C7: currentStreak of a user is above 0 exactly when the last game of
\* the user in date order is solved and dated the day of the aggregation
\* or the day before; it is 0 when the last game is a failure.
C7_CurrentStreakIffAnchored ==
    apc = "done" =>
        /\ ~agg.threw
        /\ wordleResults # <<>> => DOMAIN agg.userStats = StoredUsers
        /\ \A userId \in StoredUsers, pl \in Places :
               IsLastPlace(userId, pl) =>
                   /\ agg.userStats[userId].currentStreak > 0
                          <=> (PlaceSolved(pl) /\ PlaceDay(pl) \in {Today, Today - 1})
                   /\ ~PlaceSolved(pl) => agg.userStats[userId].currentStreak = 0

C7_Witness ==
    /\ apc = "done"
    /\ \E pl \in Places :
           /\ IsLastPlace(Id1, pl) /\ PlaceSolved(pl) /\ PlaceDay(pl) = Today - 1
    /\ agg.userStats[Id1].currentStreak > 0
    /\ \E pl \in Places :
           /\ IsLastPlace(Id2, pl) /\ ~PlaceSolved(pl) /\ PlaceDay(pl) = Today - 1
    /\ \E q \in GamePlaces(Id2) : PlaceSolved(q)
    /\ agg.userStats[Id2].currentStreak = 0

Batch20240101 ==
    [date |-> <<2024, 1, 1>>,
     results |-> <<[id |-> Id1, score |-> 3], [id |-> Id2, score |-> Fail]>>]

Batch20240102 ==
    [date |-> <<2024, 1, 2>>, results |-> <<[id |-> Id1, score |-> 2]>>]

TwoBatchesStored ==
    wordleResults \in {<<Batch20240101, Batch20240102>>,
                       <<Batch20240102, Batch20240101>>}

\* C8: the batches 2024-01-01 [{1, 3}, {2, -1}] and 2024-01-02 [{1, 2}]
\* aggregate to gamesPlayed 2, gamesSolved 2, averageScore 2.5 and
\* maxStreak 2 for user 1, gamesPlayed 1 and winRate 0 for user 2, and a
\* dailySummary of 2024-01-02 with totalPlayers 1 and successRate 100.
C8_TwoBatchScenario ==
    (apc = "done" /\ TwoBatchesStored) =>
        /\ ~agg.threw
        /\ DOMAIN agg.userStats = {Id1, Id2}
        /\ agg.userStats[Id1].gamesPlayed = 2
        /\ agg.userStats[Id1].gamesSolved = 2
        /\ agg.userStats[Id1].averageScore = [k |-> "num", n |-> 5, d |-> 2]
        /\ agg.userStats[Id1].maxStreak = 2
        /\ agg.userStats[Id2].gamesPlayed = 1
        /\ agg.userStats[Id2].winRate = [k |-> "num", n |-> 0, d |-> 1]
        /\ ~agg.dailySummary.null
        /\ agg.dailySummary.date = <<2024, 1, 2>>
        /\ agg.dailySummary.totalPlayers = 1
        /\ agg.dailySummary.successRate = [k |-> "num", n |-> 100, d |-> 1]

C8_Witness ==
    /\ apc = "done"
    /\ wordleResults = <<Batch20240101, Batch20240102>>
    /\ agg.dailySummary.date = <<2024, 1, 2>>

\* C9: the aggregation of an empty store returns a null dailySummary, an
\* empty userStats and three empty leaderboards, and raises no error.
C9_EmptyStoreGivesEmptyStats ==
    (apc = "done" /\ wordleResults = <<>>) =>
        /\ ~agg.threw
        /\ DOMAIN agg = {"threw", "dailySummary", "userStats", "allTimeLeaderboards"}
        /\ agg.dailySummary.null
        /\ DOMAIN agg.userStats = {}
        /\ DOMAIN agg.allTimeLeaderboards
               = {"longestStreak", "bestWinRate", "bestAverageScore"}
        /\ agg.allTimeLeaderboards.longestStreak = <<>>
        /\ agg.allTimeLeaderboards.bestWinRate = <<>>
        /\ agg.allTimeLeaderboards.bestAverageScore = <<>>

C9_Witness ==
    /\ apc = "done"
    /\ wordleResults = <<>>
    /\ agg.dailySummary.null

\* C10: for every store content, also with batches whose results, date
\* or score is absent or malformed, aggregateWordleStats returns and
\* never raises an error.
C10_AggregatorNeverThrows == apc = "done" => ~agg.threw

\* what does make the aggregation throw: a document with a date that is
\* no date, or with no results
ThrowsOnlyOnBadDateOrNoResults ==
    apc = "done" =>
        (agg.threw <=>
            \E i \in 1..Len(wordleResults) :
                /\ Has(wordleResults[i], "date")
                /\ \/ wordleResults[i].date[2] > 12
                   \/ ~Has(wordleResults[i], "results"))

----------------------------------------------------------------------------
(* Claims about the workflows *)

\* the number of stored batches that came from message id
StoredFrom(id) == Cardinality({i \in 1..Len(origin) : origin[i] = id})

\* C4: over workflow runs that do not overlap and whose fetch windows
\* do, every summary message gives rise to at most one stored batch.
C4_EachMessageStoredAtMostOnce ==
    \A m \in 1..Len(Channel) : StoredFrom(Channel[m].id) <= 1

\* a summary whose users are all mentions is stored at most once
MentionSummaryStoredAtMostOnce == StoredFrom(4) <= 1

\* the store without the results that have no identity
WithoutNullResults(coll) ==
    [i \in 1..Len(coll) |->
        [date |-> coll[i].date,
         results |-> SelectSeq(coll[i].results, LAMBDA r : r.id # Null)]]

LatestDay == CHOOSE d \in {PlaceDay(pl) : pl \in Places} :
                 \A pl \in Places : PlaceDay(pl) <= d

\* how many elements of the sequence have no identity
NullCount(results) == Cardinality({k \in 1..Len(results) : results[k].id = Null})

\* the sum of the counts of a distribution
RECURSIVE DistributionTotal(_, _)
DistributionTotal(distribution, keys) ==
    IF keys = {} THEN 0
    ELSE LET key == CHOOSE k \in keys : TRUE
         IN  distribution[key] + DistributionTotal(distribution, keys \ {key})

\* a result without identity makes and changes no entry of userStats
NullResultsLeaveUserStats ==
    Returned =>
        /\ Null \notin DOMAIN agg.userStats
        /\ agg.userStats
               = AggregateWordleStats(WithoutNullResults(wordleResults),
                                      userIdToName, now).userStats

\* the results without identity of the most recent date are all in the
\* daily summary
NullResultsInDailySummary ==
    /\ NullCount(agg.dailySummary.results)
           = Cardinality({pl \in GamePlaces(Null) : PlaceDay(pl) = LatestDay})
    /\ agg.dailySummary.totalPlayers = Len(agg.dailySummary.results)
    /\ DistributionTotal(agg.dailySummary.distribution,
                         DOMAIN agg.dailySummary.distribution)
           = agg.dailySummary.totalPlayers

\* C11: a stored result whose identity is null makes and changes no entry
\* of userStats, and is counted in totalPlayers, results and distribution
\* of the daily summary when its date is the most recent one.
C11_NullResultsOnlyInDailySummary ==
    (Returned /\ wordleResults # <<>>) =>
        /\ Null \notin DOMAIN agg.userStats
        /\ agg.userStats
               = AggregateWordleStats(WithoutNullResults(wordleResults),
                                      userIdToName, now).userStats
        /\ NullResultsInDailySummary

\* with one batch on the most recent date its results without identity
\* are counted
NullResultsOfOneBatchCounted ==
    (/\ Returned
     /\ wordleResults # <<>>
     /\ Cardinality({i \in 1..Len(wordleResults) :
                        DaysFromCivil(wordleResults[i].date) = LatestDay}) = 1)
        => NullResultsInDailySummary

\* the results of the most recent date, batch after batch in the order
\* of the store
RECURSIVE ResultsOfDay(_, _)
ResultsOfDay(coll, day) ==
    IF coll = <<>> THEN <<>>
    ELSE (IF DaysFromCivil(Head(coll).date) = day THEN Head(coll).results ELSE <<>>)
             \o ResultsOfDay(Tail(coll), day)

RECURSIVE ScoreSum(_)
ScoreSum(results) ==
    IF results = <<>> THEN 0 ELSE Head(results).score + ScoreSum(Tail(results))

\* what the claim says of the daily summary, for the results of one day
IsDailySummaryOf(summary, day, dayResults) ==
    LET solved == SelectSeq(dayResults, LAMBDA r : r.score # Fail)
    IN  /\ ~summary.null
        /\ summary.date = CivilFromDays(day)
        /\ summary.totalPlayers = Len(dayResults)
        /\ summary.winners = solved
        /\ summary.successRate
               = IF Len(dayResults) = 0 THEN Quot(0, 1)
                 ELSE Quot(100 * Len(solved), Len(dayResults))
        /\ summary.successRate.n <= 100 * summary.successRate.d
        /\ summary.averageScore
               = IF solved = <<>> THEN JsNull
                 ELSE Quot(ScoreSum(solved), Len(solved))
        /\ \A score \in {Fail} \cup SolveBuckets :
               LET count == Cardinality({k \in 1..Len(dayResults) :
                                            dayResults[k].score = score})
               IN  IF count = 0 THEN score \notin DOMAIN summary.distribution
                   ELSE /\ score \in DOMAIN summary.distribution
                        /\ summary.distribution[score] = count

\* C12: the daily summary is that of the greatest dateKey of the store:
\* its date is the key, totalPlayers the number of results of the date,
\* winners the solved ones in their order, successRate 100 * winners /
\* totalPlayers, averageScore the mean over the winners or null, and
\* distribution counts every result once.
C12_DailySummaryOfLatestDate ==
    (Returned /\ wordleResults # <<>>) =>
        IsDailySummaryOf(agg.dailySummary, LatestDay,
                         ResultsOfDay(wordleResults, LatestDay))

LatestBatches ==
    {i \in 1..Len(wordleResults) : DaysFromCivil(wordleResults[i].date) = LatestDay}

\* the daily summary is that of the batch of the most recent date that
\* the store hands over last
DailySummaryOfLastBatch ==
    (Returned /\ wordleResults # <<>>) =>
        LET last == CHOOSE i \in LatestBatches : \A j \in LatestBatches : j <= i
        IN  IsDailySummaryOf(agg.dailySummary, LatestDay, wordleResults[last].results)

\* every winner of the daily summary has a score
WinnersHaveScore ==
    (Returned /\ ~agg.dailySummary.null) =>
        \A k \in 1..Len(agg.dailySummary.winners) :
            Has(agg.dailySummary.winners[k], "score")

\* the order in which the users go into the sort of a leaderboard
InputOrder == KeyOrder(AllGames(OrderByDateDesc(wordleResults)))

\* the place of every user in that order
InputPlaces ==
    LET order == InputOrder
    IN  [userId \in {order[i] : i \in 1..Len(order)} |->
            CHOOSE i \in 1..Len(order) : order[i] = userId]

Boards == {"longestStreak", "bestWinRate", "bestAverageScore"}

\* a has the strictly better key on the board
BetterKey(board, a, b) ==
    CASE board = "longestStreak"    -> a.maxStreak > b.maxStreak
      [] board = "bestWinRate"      -> a.winRate.n * b.winRate.d > b.winRate.n * a.winRate.d
      [] board = "bestAverageScore" ->
             a.averageScore.n * b.averageScore.d < b.averageScore.n * a.averageScore.d

OnBoard(board, st) ==
    /\ st.gamesPlayed >= 1
    /\ board = "bestAverageScore" => st.averageScore # JsNull

Listed(list) == {list[i].id : i \in 1..Len(list)}

IsLeaderboard(board, list, place) ==
    /\ Len(list) <= 5
    /\ \A i \in 1..Len(list) :
           /\ list[i].id \in DOMAIN agg.userStats
           /\ list[i] = agg.userStats[list[i].id]
           /\ OnBoard(board, list[i])
    /\ \A i, j \in 1..Len(list) :
           i < j => /\ list[i].id # list[j].id
                    /\ ~BetterKey(board, list[j], list[i])
                    /\ ~BetterKey(board, list[i], list[j])
                           => place[list[i].id] < place[list[j].id]
    /\ \A userId \in DOMAIN agg.userStats \ Listed(list) :
           OnBoard(board, agg.userStats[userId]) =>
               /\ Len(list) = 5
               /\ \A i \in 1..Len(list) :
                      /\ ~BetterKey(board, agg.userStats[userId], list[i])
                      /\ ~BetterKey(board, list[i], agg.userStats[userId])
                             => place[list[i].id] < place[userId]

\* C13: each leaderboard holds at most 5 users with a game, ordered by
\* its key, none with a null averageScore in bestAverageScore, leaves
\* out no user with a strictly better key than a listed one, and keeps
\* the users of equal keys in their input order.
C13_LeaderboardsAreStableTopFive ==
    Returned =>
        LET place == InputPlaces
        IN  \A board \in Boards :
                IsLeaderboard(board, agg.allTimeLeaderboards[board], place)

C13_Witness ==
    /\ Returned
    /\ Cardinality(DOMAIN agg.userStats) > 5
    /\ Len(agg.allTimeLeaderboards.longestStreak) = 5
    /\ agg.allTimeLeaderboards.longestStreak[1].maxStreak = 2
    /\ agg.allTimeLeaderboards.longestStreak[4].maxStreak
           = agg.allTimeLeaderboards.longestStreak[5].maxStreak
    /\ InputOrder[2] # AllGames(OrderByDateDesc(wordleResults))[2].id
    /\ \E userId \in DOMAIN agg.userStats :
           /\ userId \notin Listed(agg.allTimeLeaderboards.bestWinRate)
           /\ agg.userStats[userId].winRate
                  = agg.allTimeLeaderboards.bestWinRate[5].winRate
    /\ Len(agg.allTimeLeaderboards.bestAverageScore) \in 1..4

----------------------------------------------------------------------------
(* Claims about parseWordleSummary *)

\* the text that was parsed and its lines
Content == allMessages[1].content

\* the line has "on a ", a day count of n digits and " day streak"
HasDayCount(line) ==
    \E i \in 1..Len(line), n \in 1..Len(line) :
        /\ HasAt(line, i, StrOnA)
        /\ \A k \in 0..(n - 1) : HasAt(line, i + 5 + k, <<48>>)
                                  \/ \E c \in 49..57 : HasAt(line, i + 5 + k, <<c>>)
        /\ HasAt(line, i + 5 + n, StrDayStreak)

\* the results the lines of the text give with the roster
Extracted == ParseResults(SplitLines(Content), guildMembers)

\* ghost: the text has no score line at all
NoScoreLine == \A i \in 1..Len(Shape.body) : Shape.body[i].kind = "text"

\* C14: parseWordleSummary returns a summary exactly when the first line
\* has a day count and the lines gave at least one result, and the
\* summary then has the day count and these results; otherwise it returns
\* null, and it does so for the empty text and for a text with a streak
\* line and no score line.
C14_SummaryIffStreakAndResults ==
    ParseReturned =>
        LET extracted == Extracted
        IN  /\ ~parsed.null <=> /\ HasDayCount(Shape.first)
                                /\ ~extracted.threw
                                /\ Len(extracted.results) > 0
            /\ parsed.null => DOMAIN parsed = {"null", "raised"}
            /\ ~parsed.null =>
                   /\ DOMAIN parsed
                          = {"null", "raised", "streak", "results", "solved", "unsolved"}
                   /\ parsed.streak # JsNull
                   /\ parsed.results = extracted.results
            /\ Content = <<>> => parsed.null
            /\ NoScoreLine => parsed.null

\* a text with a streak line and two results has been parsed
C14_Witness ==
    /\ ParseReturned
    /\ ~parsed.null
    /\ parsed.streak = Quot(12, 1)
    /\ Len(parsed.results) = 2
    /\ guildMembers # <<>>

\* ghost: the score lines of the text, in order
ShapeScoreLines == SelectSeq(Shape.body, LAMBDA l : l.kind = "score")

\* ghost: the user tokens of the score lines with the score token of
\* their line, in line order and left to right
RECURSIVE TokensOf(_)
TokensOf(scoreLines) ==
    IF scoreLines = <<>> THEN <<>>
    ELSE [k \in 1..Len(Head(scoreLines).users) |->
             [token |-> Head(scoreLines).token, user |-> Head(scoreLines).users[k]]]
         \o TokensOf(Tail(scoreLines))

\* ghost: the token is a user reference: <@id>, <@!id> or @name
IsUserReference(t) == t.form \in {"plain", "mention", "nick"}

\* ghost: the text matches the template: a first line with a day count,
\* at least one score line, every score line with X or a digit 1 to 6
\* and user references, and otherwise empty lines and the line of counts
MatchesTemplate ==
    /\ HasDayCount(Shape.first)
    /\ ShapeScoreLines # <<>>
    /\ \A i \in 1..Len(Shape.body) :
           LET l == Shape.body[i]
           IN  IF l.kind = "text" THEN l.text \in {<<>>, StrCounts}
               ELSE /\ l.token \in {88} \cup 49..54
                    /\ \A k \in 1..Len(l.users) : IsUserReference(l.users[k])

\* every entry of the roster has a username
CompleteRoster == \A i \in 1..Len(guildMembers) : Has(guildMembers[i], "username")

\* the result is the one of the token
IsResultOf(result, entry) ==
    /\ result.score = IF entry.token = 88 THEN -1 ELSE entry.token - 48
    /\ IF entry.user.form = "plain"
       THEN Has(result, "username") /\ result.username = entry.user.text
       ELSE ~Has(result, "username") /\ result.id = entry.user.text

\* C15: for a text that matches the template, parsed with a roster whose
\* entries have a username, parseWordleSummary returns a summary whose
\* results are, one for one and in the same order, the user tokens of the
\* score lines, each with the score of its line.
C15_OneResultPerUserToken ==
    (ParseReturned /\ MatchesTemplate /\ CompleteRoster) =>
        LET tokens == TokensOf(ShapeScoreLines)
        IN  /\ ~parsed.null
            /\ Len(parsed.results) = Len(tokens)
            /\ \A k \in 1..Len(tokens) : IsResultOf(parsed.results[k], tokens[k])

\* a template text with two users on its first score line and a second
\* score line has been parsed
C15_Witness ==
    /\ ParseReturned
    /\ MatchesTemplate
    /\ CompleteRoster
    /\ Len(ShapeScoreLines) = 2
    /\ Len(ShapeScoreLines[1].users) = 2
    /\ ShapeScoreLines[1].users[1].form = "mention"
    /\ ShapeScoreLines[1].pad
    /\ ShapeScoreLines[1].token # ShapeScoreLines[2].token
    /\ Len(parsed.results) = 3

\* the scores a result may carry: -1 and 1 to 6
ValidScores == {Fail} \cup 1..6

\* ghost: no score line of the text has X or a digit 1 to 6
OnlyOtherScoreTokens ==
    \A i \in 1..Len(ShapeScoreLines) :
        ShapeScoreLines[i].token \notin {88} \cup 49..54

\* C16: every result that parseWordleSummary returns has a score among
\* -1, 1, ..., 6, and a text whose score lines all have another score
\* token gives no result, so that null is returned.
C16_ScoresAreFailOrOneToSix ==
    ParseReturned =>
        /\ ~parsed.null =>
               \A k \in 1..Len(parsed.results) : parsed.results[k].score \in ValidScores
        /\ OnlyOtherScoreTokens => parsed.null

\* a score line with X gives -1, one with a digit 1 to 6 gives the digit
\* and one with a token that is no digit gives nothing
ScoreOfTemplateTokens ==
    (ParseReturned /\ ~parsed.null /\ Len(ShapeScoreLines) = 1
        /\ \A k \in 1..Len(ShapeScoreLines[1].users) :
               IsUserReference(ShapeScoreLines[1].users[k])) =>
        LET token == ShapeScoreLines[1].token
        IN  /\ token # 120
            /\ \A k \in 1..Len(parsed.results) :
                   parsed.results[k].score = IF token = 88 THEN -1 ELSE token - 48

\* the two strings are equal when the case of the letters is ignored
EqualIgnoringCase(a, b) ==
    /\ Len(a) = Len(b)
    /\ \A k \in 1..Len(a) :
           \/ a[k] = b[k]
           \/ a[k] \in 65..90 /\ b[k] = a[k] + 32
           \/ b[k] \in 65..90 /\ a[k] = b[k] + 32

\* the entries of the roster whose username or nickname is the name
RosterMatches(name) ==
    {i \in 1..Len(guildMembers) :
        \/ EqualIgnoringCase(guildMembers[i].username, name)
        \/ /\ Has(guildMembers[i], "nick")
           /\ guildMembers[i].nick # <<>>
           /\ EqualIgnoringCase(guildMembers[i].nick, name)}

\* the identity of the first entry that matches, or null
FirstMatch(name) ==
    IF RosterMatches(name) = {} THEN Null
    ELSE guildMembers[CHOOSE i \in RosterMatches(name) :
                          \A j \in RosterMatches(name) : i <= j].id

\* ghost: every user token of the text is a mention
OnlyMentions ==
    \A i \in 1..Len(ShapeScoreLines) : \A k \in 1..Len(ShapeScoreLines[i].users) :
        ShapeScoreLines[i].users[k].form \in {"mention", "nick"}

\* C17: the result of an @name token has the identity of the first
\* entry of the roster whose username or nickname is the name up to
\* case, and null with the name kept when there is none; the result of a
\* mention has the identity of the mention, whatever the roster is.
C17_FirstRosterMatchResolves ==
    (ParseReturned /\ MatchesTemplate /\ (CompleteRoster \/ OnlyMentions)) =>
        LET tokens == TokensOf(ShapeScoreLines)
        IN  /\ ~parsed.null
            /\ Len(parsed.results) = Len(tokens)
            /\ \A k \in 1..Len(tokens) :
                   IF tokens[k].user.form = "plain"
                   THEN /\ parsed.results[k].id = FirstMatch(tokens[k].user.text)
                        /\ parsed.results[k].username = tokens[k].user.text
                   ELSE parsed.results[k].id = tokens[k].user.text

\* "@Alice" was resolved with a roster of two entries that match, the
\* first by its nickname, and "@Z" with no entry that matches
C17_Witness ==
    /\ ParseReturned
    /\ MatchesTemplate
    /\ guildMembers = <<MemberAl, MemberAlice>>
    /\ ~parsed.null
    /\ Len(parsed.results) = 2
    /\ \A k \in 1..2 : Has(parsed.results[k], "username")
    /\ parsed.results[1].username = StrAliceCap
    /\ parsed.results[1].id = Id2
    /\ parsed.results[2].username = StrZ
    /\ parsed.results[2].id = Null

\* C18: parseWordleSummary raises no error to its caller; when the
\* lookup of a name throws on a roster entry without a username, the
\* call returns null.
C18_ParseNeverRaises ==
    ParseReturned =>
        /\ ~parsed.raised
        /\ Extracted.threw => parsed = ParseNull
        /\ (MatchesTemplate /\ ~CompleteRoster /\ ~OnlyMentions) => parsed = ParseNull

\* a template text with an @name was parsed with a roster that has an
\* entry without a username
C18_Witness ==
    /\ ParseReturned
    /\ MatchesTemplate
    /\ ~OnlyMentions
    /\ guildMembers = <<MemberAlice, MemberPartial>>
    /\ parsed = ParseNull

----------------------------------------------------------------------------
(* Claims about fetchMessages and fetchGuildMembers *)

\* C19: every call of fetchMessages and of fetchGuildMembers that has
\* asked for a page eventually returns, whatever the remote answers.
C19_EveryFetchReturns == (qpc = "request") ~> (qpc = "returned")

\* the backoff stays between its start and its cap
BackoffIsCapped == backoff \in BackoffStart..BackoffMax

\* ghost: the items of the pages that were read
PagesItems ==
    SubSeq(remote, 1, IF pagesRead * PageLimit < Len(remote)
                      THEN pagesRead * PageLimit ELSE Len(remote))

\* C20: a call whose page request got a status that is neither ok nor
\* 429, or a network error, has returned the items of the pages it read
\* before and has raised no error.
C20_FailedPageReturnsAccumulated ==
    lastResponse \in {"status", "network"} =>
        /\ qpc = "returned"
        /\ ~fetchRaised
        /\ fetched = PagesItems
        /\ Len(fetched) = pagesRead * PageLimit

\* a call has read a full page and has returned at a failed request for
\* the next page, after a wait
C20_Witness ==
    /\ qpc = "returned"
    /\ lastResponse \in {"status", "network"}
    /\ pagesRead >= 1
    /\ Len(fetched) >= PageLimit
    /\ retryAfter > 0

RECURSIVE Pow2(_)
Pow2(n) == IF n = 0 THEN 1 ELSE 2 * Pow2(n - 1)

\* the wait at the n-th throttling signal in a row: 1000 ms, doubled
\* each time, at most 30000 ms
ExpectedWait(n) == IF 1000 * Pow2(n - 1) < 30000 THEN 1000 * Pow2(n - 1) ELSE 30000

\* C21: a throttled request is followed, after a wait, by a request for
\* the same page, the first one not yet read; the wait is 1000 ms at the
\* first throttling signal, doubles with each further one in a row and is
\* at most 30000 ms; after an answer that is no throttling signal the
\* delay is 1000 ms again.
C21_BackoffDoublesToCeiling ==
    /\ qpc \in {"request", "wait"} => cursor = pagesRead * PageLimit
    /\ qpc = "wait" => /\ retryAfter = ExpectedWait(throttles)
                       /\ retryAfter <= BackoffMax
    /\ lastResponse \in {"status", "page"} => backoff = BackoffStart /\ throttles = 0

\* C21 (amended): a throttled request is followed, after a wait, by a
\* request for the same page; the wait is the retry_after of the body of
\* the 429 answer, in ms and rounded up, when the body has one, and
\* otherwise the backoff, which is 1000 ms at the first throttling signal
\* in a row, doubles with each further one up to 30000 ms, and is 1000 ms
\* again after an answer that is no throttling signal.
C21_WaitIsRetryAfterOrBackoff ==
    /\ qpc \in {"request", "wait"} => cursor = pagesRead * PageLimit
    /\ qpc = "wait" =>
           /\ backoff = ExpectedWait(throttles)
           /\ IF retryGiven = 0 THEN retryAfter = backoff
              ELSE retryAfter * 2 >= retryGiven /\ (retryAfter - 1) * 2 < retryGiven
    /\ qpc = "request" => backoff = ExpectedWait(throttles + 1)
    /\ lastResponse \in {"status", "page"} => backoff = BackoffStart /\ throttles = 0

\* the third request in a row for the second page was throttled, with no
\* retry_after in the body
C21_Witness ==
    /\ qpc = "wait"
    /\ pagesRead = 1
    /\ cursor = PageLimit
    /\ throttles = 3
    /\ retryGiven = 0
    /\ retryAfter = 4000

----------------------------------------------------------------------------
(* Claims about the runs of the workflows *)

\* the messages of the run that are summaries and give a parsed summary
ParsedSummaryIds ==
    {allMessages[i].id : i \in {k \in 1..Len(allMessages) :
        /\ IsWordleSummary(allMessages[k].content)
        /\ ~ParseWordleSummary(allMessages[k].content, guildMembers).null}}

\* the run is past its loop over the messages
PastLoop == fpc \in {"aggregate", "post", "idle"}

\* C22: in a run of trackWordleResults in which a store has failed, the
\* run goes on: past the loop the store of every summary message of the
\* window has been attempted, and at the end of the run one report has
\* been posted unless the aggregation or the posting threw.
C22_StoreFailureDoesNotAbortRun ==
    (kind = "track" /\ runLog.storeFailed /\ PastLoop) =>
        /\ runLog.attempts = ParsedSummaryIds
        /\ (fpc = "idle" /\ ~runLog.threw) => runLog.posts = 1

\* the store of the first of two summaries failed, the second one was
\* stored and the report was posted
C22_Witness ==
    /\ kind = "track"
    /\ fpc = "idle"
    /\ runLog.storeFailed
    /\ runLog.attempts = {4, 5}
    /\ outcome[1] = "added"
    /\ runLog.posts = 1

\* C23: a run of trackWordleResults raises no error to its caller; when
\* a step of the run has thrown the run is over, and no report was posted
\* in it when the aggregation threw; a run posts at most one report.
C23_TrackNeverRaises ==
    kind = "track" =>
        /\ ~runLog.raised
        /\ runLog.posts <= 1
        /\ runLog.threw => fpc = "idle"
        /\ agg.threw => runLog.posts = 0 /\ runLog.threw
        /\ runLog.posts = 1 => fpc = "idle"

\* the aggregation of a run has thrown after a batch was stored
C23_Witness ==
    /\ kind = "track"
    /\ agg.threw
    /\ runLog.threw
    /\ runLog.attempts # {}
    /\ fpc = "idle"
    /\ posted = 0

----------------------------------------------------------------------------
(* The replies of the commands *)

Commands == {"setup", "help", "print", "personal"}

\* C24: a command that handleInteraction dispatched never sends a second
\* reply, and once its execute has returned it has sent exactly one: on
\* success, on a missing or invalid option, on missing configuration, and
\* when a collaborator raised, where the reply is the text of the error.
C24_EveryCommandRepliesOnce ==
    kind \in Commands =>
        /\ runLog.replies <= 1
        /\ ~runLog.raised
        /\ fpc = "idle" => /\ runLog.replies = 1
                           /\ reply.content # "none"
                           /\ runLog.threw => reply.content = "error"
        /\ fpc # "idle" => runLog.replies = 0

\* a collaborator of /printresults raised after the report was sent, and
\* the command has replied with the error
C24_Witness ==
    /\ kind = "print"
    /\ fpc = "idle"
    /\ runLog.threw
    /\ runLog.posts = 1
    /\ runLog.replies = 1
    /\ reply.content = "error"

----------------------------------------------------------------------------
(* The order in which the store hands over the batches *)

\* the sequences that hold the documents of coll in some order
Reorderings(coll) ==
    LET n == Len(coll)
    IN  {[i \in 1..n |-> coll[f[i]]] :
            f \in {g \in [1..n -> 1..n] : \A i, j \in 1..n : i # j => g[i] # g[j]}}

\* the userStats and the dailySummary are those of every other order
SameInEveryOrder(part) ==
    \A other \in Reorderings(wordleResults) :
        LET stats == AggregateWordleStats(other, userIdToName, now)
        IN  /\ ~stats.threw
            /\ IF part = "userStats" THEN stats.userStats = agg.userStats
               ELSE stats.dailySummary = agg.dailySummary

\* C25: for a fixed set of stored batches, identity map and aggregation
\* date, the userStats and the dailySummary that aggregation returns are
\* the same for every order in which the store hands over the batches,
\* several batches of one date included.
C25_StatsIndependentOfBatchOrder ==
    Returned => SameInEveryOrder("userStats") /\ SameInEveryOrder("dailySummary")

\* no two batches of the store have the same date
OneBatchPerDate ==
    \A i, j \in 1..Len(wordleResults) :
        i # j => wordleResults[i].date # wordleResults[j].date

\* with one batch per date the order of the batches does not matter
StatsIndependentOfOrderOfDates ==
    (Returned /\ OneBatchPerDate) =>
        SameInEveryOrder("userStats") /\ SameInEveryOrder("dailySummary")

\* the userStats alone depend on the order too
UserStatsIndependentOfBatchOrder == Returned => SameInEveryOrder("userStats")

----------------------------------------------------------------------------
(* Several batches on the most recent date *)

\* the places of the results of the most recent date
LatestPlaces == {pl \in Places : PlaceDay(pl) = LatestDay}

\* the result at a place is one of the results of the daily summary
InDailySummary(pl) ==
    \E k \in 1..Len(agg.dailySummary.results) :
        agg.dailySummary.results[k] = wordleResults[pl[1]].results[pl[2]]

\* C26: when more than one batch is stored under the most recent date,
\* every result of that date that is counted in some user's gamesPlayed
\* is also in dailySummary.results, and totalPlayers is the number of
\* results stored for that date.
C26_DailySummaryCoversAllBatches ==
    (Returned /\ Cardinality(LatestBatches) > 1) =>
        /\ \A pl \in LatestPlaces : PlaceId(pl) # Null => InDailySummary(pl)
        /\ agg.dailySummary.totalPlayers = Cardinality(LatestPlaces)

\* the results of the most recent date that are missing in the daily
\* summary are counted in the gamesPlayed of their users all the same
MissingResultsArePlayed ==
    Returned =>
        \A pl \in LatestPlaces :
            PlaceId(pl) # Null =>
                agg.userStats[PlaceId(pl)].gamesPlayed
                    = Cardinality(GamePlaces(PlaceId(pl)))

----------------------------------------------------------------------------
(* The medals of the report *)

\* the users with a value in a category
Qualifying(board) ==
    {userId \in DOMAIN agg.userStats :
        ValueOf(board, agg.userStats[userId]) # JsNull}

\* a is a strictly better value than b in the category
BetterValue(board, a, b) ==
    IF board = "bestAverageScore" THEN a.n * b.d < b.n * a.d
    ELSE a.n * b.d > b.n * a.d

\* the place of a user's value among the distinct values of the category
ValueRank(board, userId) ==
    LET values == {ValueOf(board, agg.userStats[other]) : other \in Qualifying(board)}
    IN  1 + Cardinality({v \in values :
                BetterValue(board, v, ValueOf(board, agg.userStats[userId]))})

DistinctValues(board) ==
    Cardinality({ValueOf(board, agg.userStats[userId]) : userId \in Qualifying(board)})

RowUsers(row) == {row.users[i] : i \in 1..Len(row.users)}

\* C27: in each category of the report the k-th medal, k = 1, 2, 3, lists
\* exactly the users whose value is the k-th best distinct value among the
\* users with a non-null value: users of one value share a medal, no user
\* is under two medals, the next medal is for the next distinct value, and
\* there are no more medals than distinct values.
C27_MedalsFollowDistinctValues ==
    (report.built /\ ~report.empty) =>
        \A board \in Boards :
            LET rows == report.leaderboards[board]
            IN  /\ Len(rows) = IF DistinctValues(board) < 3
                               THEN DistinctValues(board) ELSE 3
                /\ \A k \in 1..Len(rows) :
                       /\ RowUsers(rows[k])
                              = {userId \in Qualifying(board) :
                                    ValueRank(board, userId) = k}
                       /\ Len(rows[k].users) = Cardinality(RowUsers(rows[k]))
                       /\ \A userId \in RowUsers(rows[k]) :
                              rows[k].value = ValueOf(board, agg.userStats[userId])
                /\ \A k, l \in 1..Len(rows) :
                       k # l => RowUsers(rows[k]) \cap RowUsers(rows[l]) = {}

\* three medals of the best average score and a user with a fourth value
\* who gets none; two medals of the streaks, the first shared by two
\* users, that place everyone
C27_Witness ==
    /\ report.built
    /\ ~report.empty
    /\ Len(report.leaderboards.bestAverageScore) = 3
    /\ DistinctValues("bestAverageScore") = 4
    /\ Len(report.leaderboards.longestStreak) = 2
    /\ Len(report.leaderboards.longestStreak[1].users) = 2

----------------------------------------------------------------------------
(* The count that /initsetup reports *)

\* /initsetup has gone through its messages and replied
SetupComplete == kind = "setup" /\ fpc = "idle" /\ reply.content = "complete"

\* C28: the number of new results that /initsetup reports as stored is the
\* number of batches appended to the store during that run: a summary
\* whose batch was skipped as a duplicate or whose write failed is not
\* counted.
C28_ReportedCountIsAppendedCount ==
    SetupComplete => reply.stored = runLog.appended

\* the reported count is the number of summaries that were parsed and
\* handed to storeWordleResult, whatever came of them
ReportedCountIsParsedCount ==
    SetupComplete =>
        /\ reply.stored = Cardinality(runLog.attempts)
        /\ reply.stored >= runLog.appended
        /\ reply.checked >= reply.stored

\* a run in which no store was skipped or failed reports what it appended
ReportedCountOfCleanRun ==
    (SetupComplete /\ Len(origin) = ncalls) => reply.stored = runLog.appended

----------------------------------------------------------------------------
(* The order of the counters of a user *)

\* C29: for every user of userStats and every stored history,
\* 0 <= currentStreak <= maxStreak <= gamesSolved <= gamesPlayed, and
\* gamesPlayed >= 1.
C29_StreaksWithinGames ==
    Returned =>
        \A userId \in DOMAIN agg.userStats :
            LET st == agg.userStats[userId]
            IN  /\ 0 <= st.currentStreak
                /\ st.currentStreak <= st.maxStreak
                /\ st.maxStreak <= st.gamesSolved
                /\ st.gamesSolved <= st.gamesPlayed
                /\ st.gamesPlayed >= 1

\* a user whose four counters are all different, and a user whose current
\* streak is the longest one
C29_Witness ==
    /\ Returned
    /\ \E userId \in DOMAIN agg.userStats :
           LET st == agg.userStats[userId]
           IN  /\ 0 < st.currentStreak
               /\ st.currentStreak < st.maxStreak
               /\ st.maxStreak < st.gamesSolved
               /\ st.gamesSolved < st.gamesPlayed

----------------------------------------------------------------------------
(* The messages that fetchMessages returns *)

\* a message that was read has not been pushed
MetOlder == Len(fetched) < cursor

\* C30: fetchMessages returns no message whose timestamp is earlier than
\* since: the pages are read newest first, the first message older than
\* since ends the scan of its page and the pagination, and every message
\* read before it is returned, in the order received.
C30_NothingOlderThanSince ==
    fetcher = "messages" =>
        /\ \A i \in 1..Len(fetched) : fetched[i].timestamp >= fetchSince
        /\ Len(fetched) <= cursor
        /\ fetched = SubSeq(remote, 1, Len(fetched))
        /\ MetOlder =>
               /\ remote[Len(fetched) + 1].timestamp < fetchSince
               /\ qpc = "returned"
               /\ lastResponse = "page"
               /\ (pagesRead - 1) * PageLimit <= Len(fetched)
               /\ Len(fetched) < pagesRead * PageLimit

\* the second page held a message to keep and then an older one: three
\* messages are returned and the third page is not asked for
C30_Witness ==
    /\ fetcher = "messages"
    /\ qpc = "returned"
    /\ MetOlder
    /\ pagesRead = 2
    /\ Len(fetched) = 3
    /\ Len(remote) > cursor
    /\ remote[4].timestamp < fetchSince
====
